---- MODULE Spec2Model ----
(***************************************************************************)
(* Culinary-AI: the application's shopping list (App.handleAddToShoppingList*)
(* and its callers) and the live voice-assistant hook (useLiveAssistant)   *)
(* with the CookingModeView step state it drives.                          *)
(*                                                                         *)
(* Strings are sequences of one-character strings, so that trim,           *)
(* toLowerCase, split and the default Array.prototype.sort order (UTF-16   *)
(* code units) are computed and not assumed.                               *)
(***************************************************************************)
EXTENDS Integers, Sequences, FiniteSets, TLC

VARIABLES
    shoppingList,   \* App: const [shoppingList, setShoppingList] = useState<string[]>([])
    newItem,        \* ShoppingListView: const [newItem, setNewItem] = useState('')
    lastListOp      \* history: what the last shopping-list operation did

listVars == <<shoppingList, newItem, lastListOp>>

VARIABLES
    mounted,                 \* CookingModeView (and with it the hook) is mounted
    isSessionActive,         \* useLiveAssistant: useState(false)
    isMuted,                 \* useLiveAssistant: useState(false)
    sessionPromiseRef,       \* 0 is null, k the promise returned by the k-th ai.live.connect
    mediaStreamRef,          \* 0 is null, k the stream of the k-th startSession
    inputAudioContextRef,    \* 0 is null, k the 16 kHz context of the k-th startSession
    outputAudioContextRef,   \* 0 is null, k the 24 kHz context of the k-th startSession
    scriptProcessorRef,      \* 0 is null, k the processor made by the k-th onopen
    sourceNodeRef,           \* 0 is null, k the stream source made by the k-th onopen
    started,                 \* how many times startSession has been called
    sess,                    \* per startSession call: its closure and the platform objects it made
    uncaught,                \* an exception or promise rejection nobody handled has occurred
    lastFrame,               \* history: what the last onaudioprocess callback did
    lastOp                   \* history: the operation of the last step

VARIABLES
    stepCount,               \* recipe.steps.length of the recipe being cooked
    currentStep,             \* CookingModeView: useState(0), with the updates not yet rendered
    currentStepRef,          \* CookingModeView: currentStepRef.current, assigned at every render
    assistantMessage,        \* CookingModeView: useState<string | null>(null)
    userTranscription,       \* useLiveAssistant: useState(''), as the fragments received
    assistantTranscription,  \* useLiveAssistant: useState(''), as the fragments received
    isAssistantSpeaking,     \* useLiveAssistant: useState(false)
    isProcessingCommand,     \* useLiveAssistant: useState(false)
    nextStartTimeRef,        \* useRef<number>(0)
    audioSourcesRef,         \* useRef(new Set()): the sources scheduled and not yet ended
    handlers,                \* the processMessage calls in progress, each with its position
    scheduled                \* history: the sources in the order source.start() was called

assistantVars == <<stepCount, currentStep, currentStepRef, assistantMessage,
                   userTranscription, assistantTranscription, isAssistantSpeaking,
                   isProcessingCommand, nextStartTimeRef, audioSourcesRef, handlers,
                   scheduled>>

sessionVars == <<mounted, isSessionActive, isMuted, sessionPromiseRef, mediaStreamRef,
                 inputAudioContextRef, outputAudioContextRef, scriptProcessorRef,
                 sourceNodeRef, started, sess, uncaught, lastFrame, lastOp>>

VARIABLES
    call            \* the geminiService operation in progress: where it stands, what it holds,
                    \* and (history) its image requests as issued, settled and delayed

serviceVars == <<call>>

VARIABLES
    pantryIngredients,  \* App: useState<string[]>([])
    fridgeIngredients,  \* App: useState<string[]>([])
    inputValue,         \* PantryInput: useState('')
    isLoading,          \* App: useState(false)
    upload,             \* the photo or generation in progress and the pantry that the
                        \* onImageUpload handed to the file reader closed over
    lastGenerate        \* history: the handleRunRecipeGeneration call in progress, its argument,
                        \* and the fridge list and the pantry it was made with

pantryVars == <<pantryIngredients, fridgeIngredients, inputValue, isLoading,
                upload, lastGenerate>>

VARIABLES
    lastBlock           \* history: the sample of the last captured block and the value
                        \* onaudioprocess stored for it in the Int16Array

captureVars == <<lastBlock>>

VARIABLES
    isListening,        \* useVoiceRecognition: useState(false)
    recognitionRef,     \* recognitionRef.current: 0 is null, r the r-th SpeechRecognition made
    recognitions,       \* per SpeechRecognition made: is it running, are its listeners attached
    effectPending,      \* a render with a new onResult has happened and its effect has not run
    lastResult          \* history: what became of the last final result a recogniser produced

voiceVars == <<isListening, recognitionRef, recognitions, effectPending, lastResult>>

vars == <<listVars, sessionVars, assistantVars, serviceVars, pantryVars, captureVars,
          voiceVars>>

----------------------------------------------------------------------------
(* Bounds of the model *)

\* largest number of names handed to the shopping list in one call
MaxItems == 2

\* largest number of startSession calls in a run
MaxSessions == 2

\* largest number of steps of a recipe
MaxSteps == 2

\* largest number of function calls in the messages being processed at once
MaxCalls == 2

\* largest number of audio blocks received in a run
MaxBlocks == 3

\* longest audio block, in clock ticks
MaxDuration == 2

\* last reading of an output context's clock, in ticks
MaxClock == 4

\* largest number of recipes in one response of the model
MaxRecipes == 2

\* the largest number of fragments a transcript buffer holds
MaxFragments == 2

\* the captured samples are the multiples of 1/SampleSteps in [-1, 1]
SampleSteps == 64

\* the largest number of SpeechRecognition objects one component makes
MaxRecognitions == 3

----------------------------------------------------------------------------
(* Strings *)

LowerChars == <<"a","b","c","d","e","f","g","h","i","j","k","l","m",
                "n","o","p","q","r","s","t","u","v","w","x","y","z">>

UpperChars == <<"A","B","C","D","E","F","G","H","I","J","K","L","M",
                "N","O","P","Q","R","S","T","U","V","W","X","Y","Z">>

\* the characters of the model's strings
Chars ==
    { " ", "," } \cup { LowerChars[i] : i \in 1..Len(LowerChars) }
                 \cup { UpperChars[i] : i \in 1..Len(UpperChars) }

\* the UTF-16 code unit of every character of the modelled alphabet
CodeUnit ==
    [c \in Chars |->
        IF c = " " THEN 32
        ELSE IF c = "," THEN 44
        ELSE IF \E i \in 1..Len(UpperChars) : UpperChars[i] = c
             THEN 64 + (CHOOSE i \in 1..Len(UpperChars) : UpperChars[i] = c)
             ELSE 96 + (CHOOSE i \in 1..Len(LowerChars) : LowerChars[i] = c)]

\* the value JavaScript calls undefined (a function-call argument the remote model left out)
Undefined == <<"undefined-value">>

\* the lower-case form of every character
ToLowerChar ==
    [c \in Chars |->
        IF \E i \in 1..Len(UpperChars) : UpperChars[i] = c
        THEN LowerChars[CHOOSE i \in 1..Len(UpperChars) : UpperChars[i] = c]
        ELSE c]

\* String.prototype.toLowerCase
ToLowerCase(s) == [i \in 1..Len(s) |-> ToLowerChar[s[i]]]

\* String.prototype.trim
Trim(s) ==
    IF \A i \in 1..Len(s) : s[i] = " " THEN <<>>
    ELSE LET first == CHOOSE i \in 1..Len(s) :
                         /\ s[i] # " "
                         /\ \A j \in 1..(i - 1) : s[j] = " "
             last  == CHOOSE i \in 1..Len(s) :
                         /\ s[i] # " "
                         /\ \A j \in (i + 1)..Len(s) : s[j] = " "
         IN  SubSeq(s, first, last)

\* does pat occur in s at position i
MatchesAt(s, pat, i) ==
    /\ i + Len(pat) - 1 <= Len(s)
    /\ \A k \in 1..Len(pat) : s[i + k - 1] = pat[k]

\* String.prototype.startsWith
StartsWith(s, pat) == MatchesAt(s, pat, 1)

\* String.prototype.replace(pat, '') with a string pattern: the first occurrence only
RemoveFirst(s, pat) ==
    IF \E i \in 1..Len(s) : MatchesAt(s, pat, i)
    THEN LET at == CHOOSE i \in 1..Len(s) :
                       /\ MatchesAt(s, pat, i)
                       /\ \A j \in 1..(i - 1) : ~MatchesAt(s, pat, j)
         IN  SubSeq(s, 1, at - 1) \o SubSeq(s, at + Len(pat), Len(s))
    ELSE s

\* the comparison of the default Array.prototype.sort: code units, left to right
StrLess(a, b) ==
    \/ /\ Len(a) < Len(b)
       /\ \A i \in 1..Len(a) : a[i] = b[i]
    \/ \E i \in 1..Len(a) :
          /\ i <= Len(b)
          /\ \A j \in 1..(i - 1) : a[j] = b[j]
          /\ CodeUnit[a[i]] < CodeUnit[b[i]]

StrLeq(a, b) == a = b \/ StrLess(a, b)

RECURSIVE InsertSorted(_, _)
\* x put behind the last element of the sorted sequence that is not greater than it
InsertSorted(sorted, x) ==
    IF sorted = <<>> THEN <<x>>
    ELSE IF StrLess(x, sorted[Len(sorted)])
         THEN Append(InsertSorted(SubSeq(sorted, 1, Len(sorted) - 1), x), sorted[Len(sorted)])
         ELSE Append(sorted, x)

RECURSIVE SortedCopy(_)
SortedCopy(seq) ==
    IF seq = <<>> THEN <<>>
    ELSE InsertSorted(SortedCopy(SubSeq(seq, 1, Len(seq) - 1)), seq[Len(seq)])

\* the list without sorting: what [...prev, ...newItems] is before .sort()
UnsortedCopy(seq) == seq

\* Array.prototype.sort() without a comparator (stable, by code units)
SortStrings(seq) == SortedCopy(seq)

RECURSIVE SplitFrom(_, _, _)
\* the pieces of s from position i on, cur being the piece collected so far,
\* cut at every " and " and every ", " (the regular expression / and |, /)
SplitFrom(s, i, cur) ==
    IF i > Len(s) THEN <<cur>>
    ELSE IF MatchesAt(s, <<" ","a","n","d"," ">>, i)
         THEN <<cur>> \o SplitFrom(s, i + 5, <<>>)
    ELSE IF MatchesAt(s, <<","," ">>, i)
         THEN <<cur>> \o SplitFrom(s, i + 2, <<>>)
    ELSE SplitFrom(s, i + 1, Append(cur, s[i]))

\* String.prototype.split(/ and |, /)
SplitAndComma(s) == SplitFrom(s, 1, <<>>)

NonEmpty(s) == s # <<>>

----------------------------------------------------------------------------
(* The shopping list: App.handleAddToShoppingList *)

\* item.trim() only: the normalisation without .toLowerCase()
TrimOnly(item) == Trim(item)

\* item => item.trim().toLowerCase()
NormalizeItem(item) == ToLowerCase(Trim(item))

\* the argument as an array: Array.isArray(items) ? items : [items]
AsArray(arg) == IF arg.isArray THEN arg.value ELSE <<arg.value>>

\* .trim() is called on every element: an undefined element raises a TypeError
AddThrows(arg) == \E i \in 1..Len(AsArray(arg)) : AsArray(arg)[i] = Undefined

\* itemsToAdd: the elements normalised, the empty ones dropped (.filter(Boolean))
ItemsToAdd(arg) ==
    SelectSeq([i \in 1..Len(AsArray(arg)) |-> NormalizeItem(AsArray(arg)[i])], NonEmpty)

\* newItems: itemsToAdd.filter(item => !prevSet.has(item))
NewItems(prev, itemsToAdd) ==
    LET NotInPrev(item) == \A i \in 1..Len(prev) : prev[i] # item
    IN  SelectSeq(itemsToAdd, NotInPrev)

\* the updater handed to setShoppingList
AddUpdater(prev, itemsToAdd) ==
    IF NewItems(prev, itemsToAdd) = <<>> THEN prev
    ELSE SortStrings(prev \o NewItems(prev, itemsToAdd))

\* the shopping list after handleAddToShoppingList(arg), for an argument that does not throw
HandleAddToShoppingList(prev, arg) ==
    IF ItemsToAdd(arg) = <<>> THEN prev ELSE AddUpdater(prev, ItemsToAdd(arg))

\* RecipeCard.isItemInList
IsItemInList(list, item) ==
    \E i \in 1..Len(list) : ToLowerCase(list[i]) = ToLowerCase(item)

\* RecipeCard.areAllItemsInList
AreAllItemsInList(list, missing) ==
    \A i \in 1..Len(missing) : IsItemInList(list, missing[i])

----------------------------------------------------------------------------
(* Inputs of the shopping list *)

\* names as the user types them or as the remote model returns them
RawNames ==
    { <<"b">>, <<"A"," ">>, <<" ","a">>, <<"a","b">>, <<" ">> }

\* arrays of at most MaxItems names (a recipe's missingIngredients)
RECURSIVE NameArrays(_)
NameArrays(n) ==
    IF n = 0 THEN { <<>> }
    ELSE NameArrays(n - 1) \cup
         { Append(arr, name) : arr \in { a \in NameArrays(n - 1) : Len(a) = n - 1 },
                               name \in RawNames }

\* the missingIngredients a recipe of the remote model may carry
MissingIngredientLists == NameArrays(MaxItems)

AddWord == <<"a","d","d"," ">>

ClearListWords == <<"c","l","e","a","r"," ","l","i","s","t">>

ClearAllWords == <<"c","l","e","a","r"," ","a","l","l">>

\* names as the speech recogniser transcribes them
SpokenNames == { <<"b">>, <<"A">> }

RECURSIVE SpokenLists(_)
\* "x", "x and y", "x, y", ... with at most n names
SpokenLists(n) ==
    IF n <= 1 THEN SpokenNames
    ELSE SpokenLists(n - 1) \cup
         { l \o sep \o x : l \in SpokenLists(n - 1),
                            sep \in { <<" ","a","n","d"," ">>, <<","," ">> },
                            x \in SpokenNames }

\* final transcripts the speech recogniser may deliver to the shopping-list view
ListVoiceCommands ==
    { AddWord \o l : l \in SpokenLists(MaxItems) } \cup
    { <<"A","d","d"," ","a">>, ClearListWords, ClearAllWords, <<"a","b">> }

\* history of the last list operation: whether the argument named an entry of the
\* list in another spelling, whether the list changed, whether sorting moved a name
NoListOp == [op |-> "none", respelled |-> FALSE, changed |-> FALSE, reordered |-> FALSE]

\* some name of the argument equals an entry of the list up to letter case and
\* surrounding whitespace without being that entry letter for letter
Respelled(list, arg) ==
    \E i \in 1..Len(AsArray(arg)) : \E j \in 1..Len(list) :
        /\ AsArray(arg)[i] # list[j]
        /\ ToLowerCase(Trim(AsArray(arg)[i])) = ToLowerCase(Trim(list[j]))

----------------------------------------------------------------------------
(* Shopping-list operations *)

\* setShoppingList(prev => ...) as called by handleAddToShoppingList(arg)
AddToShoppingList(arg) ==
    /\ ~AddThrows(arg)
    /\ shoppingList' = HandleAddToShoppingList(shoppingList, arg)
    /\ lastListOp' = [op |-> "add",
                      respelled |-> Respelled(shoppingList, arg),
                      changed |-> shoppingList' # shoppingList,
                      reordered |-> shoppingList' #
                          shoppingList \o NewItems(shoppingList, ItemsToAdd(arg))]

\* onClear: () => setShoppingList([])
ClearShoppingList ==
    /\ shoppingList' = <<>>
    /\ lastListOp' = [NoListOp EXCEPT !.op = "clear", !.changed = shoppingList # <<>>]

\* ShoppingListView: the text input's onChange
TypeNewItem(text) ==
    /\ newItem' = text
    /\ UNCHANGED <<shoppingList, lastListOp>>

\* ShoppingListView.handleAddItem
HandleAddItem ==
    /\ Trim(newItem) # <<>>
    /\ AddToShoppingList([isArray |-> FALSE, value |-> newItem])
    /\ newItem' = <<>>

\* ShoppingListView.handleVoiceResult
ListVoiceResult(command) ==
    LET lowerCaseCommand == ToLowerCase(command)
        pieces == SplitAndComma(RemoveFirst(lowerCaseCommand, AddWord))
        items  == SelectSeq([i \in 1..Len(pieces) |-> Trim(pieces[i])], NonEmpty)
    IN  IF StartsWith(lowerCaseCommand, AddWord)
        THEN /\ IF Len(items) > 0
                THEN AddToShoppingList([isArray |-> TRUE, value |-> items])
                ELSE UNCHANGED <<shoppingList, lastListOp>>
             /\ UNCHANGED newItem
        ELSE IF lowerCaseCommand = ClearListWords \/ lowerCaseCommand = ClearAllWords
        THEN ClearShoppingList /\ UNCHANGED newItem
        ELSE /\ newItem' = command
             /\ UNCHANGED <<shoppingList, lastListOp>>

\* ShoppingListView: the Clear button
ClearButton == ClearShoppingList /\ UNCHANGED newItem

\* RecipeCard: the "Add All to List" button, shown unless every missing ingredient is in the list
RecipeCardAddAll(missingIngredients) ==
    /\ Len(missingIngredients) > 0
    /\ ~AreAllItemsInList(shoppingList, missingIngredients)
    /\ AddToShoppingList([isArray |-> TRUE, value |-> missingIngredients])
    /\ UNCHANGED newItem

\* RecipeCard: the "+" button of one missing ingredient, shown unless it is in the list
RecipeCardAddOne(item) ==
    /\ ~IsItemInList(shoppingList, item)
    /\ AddToShoppingList([isArray |-> TRUE, value |-> <<item>>])
    /\ UNCHANGED newItem

ListInit ==
    /\ shoppingList = <<>>
    /\ newItem = <<>>
    /\ lastListOp = NoListOp


----------------------------------------------------------------------------
(* The voice session: useLiveAssistant.startSession, endSession, toggleMute *)

SessionIds == 1..MaxSessions

\* what the k-th startSession call owns before it has done anything
NoSession ==
    [ phase          |-> "unused",   \* unused, awaitMic (in getUserMedia), denied, failed, connected
      capturedMuted  |-> FALSE,      \* isMuted of the render whose startSession was called
      stream         |-> "none",     \* the MediaStream's tracks: none, live, stopped
      inputCtx       |-> "none",     \* none, running, closed
      outputCtx      |-> "none",     \* none, running, closed
      conn           |-> "none",     \* the connection: none, connecting, open, closing, closed
      resolved       |-> FALSE,      \* the connect promise has resolved to the session
      closeRequested |-> FALSE,      \* a .then(session => session.close()) waits on the promise
      queuedFrame    |-> FALSE,      \* a .then(session => session.sendRealtimeInput()) waits on it
      nodes          |-> "none",     \* stream source and script processor: none, connected, disconnected
      nodeCtx        |-> 0,          \* the input context the nodes were made on
      currentTime    |-> 0,          \* outputAudioContext.currentTime, in ticks
      closedBy       |-> "none" ]    \* history: none, endSession, unmount, remote

NoFrame == [ev |-> "none", muted |-> FALSE, active |-> FALSE]

\* a React state setter: it has no effect once the component is unmounted
SetState(current, value) == IF mounted THEN value ELSE current

\* the Start Assistant button (shown while !isSessionActive): startSession up to
\* its await of getUserMedia
StartSession ==
    /\ mounted
    /\ ~isSessionActive
    /\ started < MaxSessions
    /\ started' = started + 1
    /\ sess' = [sess EXCEPT ![started + 1] =
                    [NoSession EXCEPT !.phase = "awaitMic", !.capturedMuted = isMuted]]
    /\ lastOp' = "startSession"
    /\ UNCHANGED <<mounted, isSessionActive, isMuted, sessionPromiseRef, mediaStreamRef,
                   inputAudioContextRef, outputAudioContextRef, scriptProcessorRef,
                   sourceNodeRef, uncaught, lastFrame>>

\* getUserMedia resolves: the rest of startSession's try block
MicGranted(k) ==
    /\ sess[k].phase = "awaitMic"
    /\ sess' = [sess EXCEPT ![k].phase = "connected",
                            ![k].stream = "live",
                            ![k].inputCtx = "running",
                            ![k].outputCtx = "running",
                            ![k].conn = "connecting"]
    /\ mediaStreamRef' = k
    /\ inputAudioContextRef' = k
    /\ outputAudioContextRef' = k
    /\ sessionPromiseRef' = k
    /\ lastOp' = "micGranted"
    /\ UNCHANGED <<mounted, isSessionActive, isMuted, scriptProcessorRef, sourceNodeRef,
                   started, uncaught, lastFrame>>

\* getUserMedia rejects: startSession's catch block logs the error
MicDenied(k) ==
    /\ sess[k].phase = "awaitMic"
    /\ sess' = [sess EXCEPT ![k].phase = "denied"]
    /\ lastOp' = "micDenied"
    /\ UNCHANGED <<mounted, isSessionActive, isMuted, sessionPromiseRef, mediaStreamRef,
                   inputAudioContextRef, outputAudioContextRef, scriptProcessorRef,
                   sourceNodeRef, started, uncaught, lastFrame>>

\* new GoogleGenAI(...) throws (no API key) after the stream and the contexts have been
\* stored in the refs: startSession's catch block logs the error
ConnectThrows(k) ==
    /\ sess[k].phase = "awaitMic"
    /\ sess' = [sess EXCEPT ![k].phase = "failed",
                            ![k].stream = "live",
                            ![k].inputCtx = "running",
                            ![k].outputCtx = "running"]
    /\ mediaStreamRef' = k
    /\ inputAudioContextRef' = k
    /\ outputAudioContextRef' = k
    /\ lastOp' = "connectThrows"
    /\ UNCHANGED <<mounted, isSessionActive, isMuted, sessionPromiseRef, scriptProcessorRef,
                   sourceNodeRef, started, uncaught, lastFrame>>

\* the connection of the k-th connect cannot be established: callbacks.onerror logs the
\* error, callbacks.onclose runs, and the connect promise never resolves to a session
ConnectFailed(k) ==
    /\ sess[k].conn = "connecting"
    /\ sess' = [sess EXCEPT ![k].conn = "closed", ![k].phase = "failed"]
    /\ isSessionActive' = SetState(isSessionActive, FALSE)
    /\ lastOp' = "connectFailed"
    /\ UNCHANGED <<mounted, isMuted, sessionPromiseRef, mediaStreamRef,
                   inputAudioContextRef, outputAudioContextRef, scriptProcessorRef,
                   sourceNodeRef, started, uncaught, lastFrame>>

\* session.close() on the session of the k-th connect
CloseConn(c) == IF c = "open" THEN "closing" ELSE c

\* callbacks.onopen of the k-th connect, then the connect promise resolving and the
\* callbacks waiting on it running (all within the same task). The nodes are made on
\* inputAudioContextRef.current; on a closed context the platform either refuses
\* (nodesMade = FALSE: the exception leaves onopen, the promise never resolves) or
\* makes nodes that never run.
OnOpen(k, nodesMade) ==
    /\ sess[k].conn = "connecting"
    /\ nodesMade \/ sess[inputAudioContextRef].inputCtx = "closed"
    /\ isSessionActive' = SetState(isSessionActive, TRUE)
    /\ IF nodesMade
       THEN /\ sourceNodeRef' = k
            /\ scriptProcessorRef' = k
            /\ sess' = [sess EXCEPT ![k].nodes = "connected",
                                    ![k].nodeCtx = inputAudioContextRef,
                                    ![k].resolved = TRUE,
                                    ![k].queuedFrame = FALSE,
                                    ![k].conn = IF sess[k].closeRequested
                                                THEN "closing" ELSE "open"]
            /\ lastFrame' = IF sess[k].queuedFrame
                            THEN [ev |-> "sent", muted |-> isMuted,
                                  active |-> isSessionActive']
                            ELSE lastFrame
            /\ UNCHANGED uncaught
       ELSE /\ sess' = [sess EXCEPT ![k].conn = "open"]
            /\ uncaught' = TRUE
            /\ UNCHANGED <<sourceNodeRef, scriptProcessorRef, lastFrame>>
    /\ lastOp' = "onopen"
    /\ UNCHANGED <<mounted, isMuted, sessionPromiseRef, mediaStreamRef,
                   inputAudioContextRef, outputAudioContextRef, started>>

\* the isMuted that onaudioprocess reads: the one startSession closed over
MutedSeenByCapture(k) == sess[k].capturedMuted

\* scriptProcessor.onaudioprocess of the nodes made by the k-th onopen: one captured block
AudioProcess(k) ==
    /\ sess[k].nodes = "connected"
    /\ sess[sess[k].nodeCtx].inputCtx = "running"
    /\ IF ~MutedSeenByCapture(k) /\ sessionPromiseRef # 0
       THEN IF sess[sessionPromiseRef].resolved
            THEN /\ lastFrame' = [ev |-> "sent", muted |-> isMuted, active |-> isSessionActive]
                 /\ UNCHANGED sess
            ELSE /\ sess' = [sess EXCEPT ![sessionPromiseRef].queuedFrame = TRUE]
                 /\ lastFrame' = [ev |-> "queued", muted |-> isMuted, active |-> isSessionActive]
       ELSE /\ lastFrame' = [ev |-> "dropped", muted |-> isMuted, active |-> isSessionActive]
            /\ UNCHANGED sess
    /\ lastOp' = "audioprocess"
    /\ UNCHANGED <<mounted, isSessionActive, isMuted, sessionPromiseRef, mediaStreamRef,
                   inputAudioContextRef, outputAudioContextRef, scriptProcessorRef,
                   sourceNodeRef, started, uncaught>>

\* the mute button (shown while isSessionActive): toggleMute
ToggleMute ==
    /\ mounted
    /\ isSessionActive
    /\ isMuted' = ~isMuted
    /\ lastOp' = "toggleMute"
    /\ UNCHANGED <<mounted, isSessionActive, sessionPromiseRef, mediaStreamRef,
                   inputAudioContextRef, outputAudioContextRef, scriptProcessorRef,
                   sourceNodeRef, started, sess, uncaught, lastFrame>>

\* AudioContext.close() of an endSession that forgot .catch(): closing a closed
\* context rejects, and nobody handles the rejection
CloseRejectionUnhandled ==
    \/ (inputAudioContextRef # 0 /\ sess[inputAudioContextRef].inputCtx = "closed")
    \/ (outputAudioContextRef # 0 /\ sess[outputAudioContextRef].outputCtx = "closed")

\* does endSession leave an error unhandled: no, every reference is read with ?. and
\* the promise of close() has .catch(console.error)
EndSessionRaises == FALSE

\* the body of endSession
EndSessionCall(by) ==
    /\ sess' = [k \in SessionIds |->
          [sess[k] EXCEPT
             !.stream   = IF k = mediaStreamRef /\ @ = "live" THEN "stopped" ELSE @,
             !.nodes    = IF k = sourceNodeRef /\ k = scriptProcessorRef /\ @ = "connected"
                          THEN "disconnected" ELSE @,
             !.inputCtx = IF k = inputAudioContextRef /\ @ = "running" THEN "closed" ELSE @,
             !.outputCtx = IF k = outputAudioContextRef /\ @ = "running" THEN "closed" ELSE @,
             !.conn     = IF k = sessionPromiseRef /\ sess[k].resolved THEN CloseConn(@) ELSE @,
             !.closeRequested = IF k = sessionPromiseRef /\ ~sess[k].resolved THEN TRUE ELSE @,
             !.closedBy = IF k = sessionPromiseRef THEN by ELSE @ ]]
    /\ sessionPromiseRef' = 0
    /\ isSessionActive' = SetState(isSessionActive, FALSE)
    /\ uncaught' = (uncaught \/ EndSessionRaises)
    /\ lastOp' = IF lastOp \in {"endSession", "endSessionAgain"}
                 THEN "endSessionAgain" ELSE "endSession"
    /\ UNCHANGED <<isMuted, mediaStreamRef, inputAudioContextRef, outputAudioContextRef,
                   scriptProcessorRef, sourceNodeRef, started, lastFrame>>

\* the End Session button (shown while isSessionActive)
EndSessionButton ==
    /\ mounted
    /\ isSessionActive
    /\ EndSessionCall("endSession")
    /\ UNCHANGED mounted

\* the component unmounts (Exit, or navigation away): the effect's cleanup calls endSession
Unmount ==
    /\ mounted
    /\ mounted' = FALSE
    /\ EndSessionCall("unmount")

\* callbacks.onclose of the k-th connect: the connection has closed, on the remote
\* side's initiative or after session.close()
OnClose(k) ==
    /\ sess[k].conn \in {"open", "closing"}
    /\ sess' = [sess EXCEPT ![k].conn = "closed",
                            ![k].closedBy = IF sess[k].conn = "open" THEN "remote" ELSE @]
    /\ isSessionActive' = SetState(isSessionActive, FALSE)
    /\ lastOp' = "onclose"
    /\ UNCHANGED <<mounted, isMuted, sessionPromiseRef, mediaStreamRef,
                   inputAudioContextRef, outputAudioContextRef, scriptProcessorRef,
                   sourceNodeRef, started, uncaught, lastFrame>>

SessionInit ==
    /\ mounted = TRUE
    /\ isSessionActive = FALSE
    /\ isMuted = FALSE
    /\ sessionPromiseRef = 0
    /\ mediaStreamRef = 0
    /\ inputAudioContextRef = 0
    /\ outputAudioContextRef = 0
    /\ scriptProcessorRef = 0
    /\ sourceNodeRef = 0
    /\ started = 0
    /\ sess = [k \in SessionIds |-> NoSession]
    /\ uncaught = FALSE
    /\ lastFrame = NoFrame
    /\ lastOp = "none"

----------------------------------------------------------------------------
(* Messages of the live session *)

Max(a, b) == IF a >= b THEN a ELSE b

Min(a, b) == IF a <= b THEN a ELSE b

\* function calls the remote model may send: name and arguments
CallShapes ==
    { [name |-> "goToNextStep", arg |-> <<>>],
      [name |-> "goToPreviousStep", arg |-> <<>>],
      [name |-> "repeatCurrentStep", arg |-> <<>>],
      [name |-> "getIngredientSubstitution", arg |-> <<"b">>],
      [name |-> "addToShoppingList", arg |-> <<"B">>],
      [name |-> "addToShoppingList", arg |-> Undefined] }

RECURSIVE CallLists(_)
\* the lists of at most n function calls
CallLists(n) ==
    IF n = 0 THEN { <<>> }
    ELSE CallLists(n - 1) \cup
         { Append(l, c) : l \in { x \in CallLists(n - 1) : Len(x) = n - 1 }, c \in CallShapes }

\* message.toolCall.functionCalls: the i-th call carries the correlation id i
FunctionCallBatches ==
    { [i \in 1..Len(l) |-> [id |-> i, name |-> l[i].name, arg |-> l[i].arg]] :
        l \in CallLists(MaxCalls) \ { <<>> } }

\* a LiveServerMessage: transcription fragments ("" is none), turnComplete, a
\* function-call batch (<<>> is no toolCall), an audio block by its duration (0 is none)
NoMessage ==
    [outputText |-> "", inputText |-> "", turnComplete |-> FALSE, calls |-> <<>>, audio |-> 0]

ToolCallMessages == { [NoMessage EXCEPT !.calls = b] : b \in FunctionCallBatches }

AudioMessages == { [NoMessage EXCEPT !.audio = d] : d \in 1..MaxDuration }

\* a message in progress holds a slot; those with function calls hold at least one call each
HandlerIds == 1..MaxCalls

\* a processMessage call: where it stands, its message, the index of the call it is
\* at, the session its await returned, the tool responses it has sent, and (history)
\* the place of its audio block among the blocks received (0 without a block)
NoHandler ==
    [pc |-> "idle", msg |-> NoMessage, idx |-> 0, session |-> 0, responses |-> <<>>,
     arrival |-> 0]

----------------------------------------------------------------------------
(* Scheduling of the callbacks: one runs at a time, continuations before events *)

\* a processMessage call is inside synchronous code
SyncRunning == \E h \in HandlerIds : handlers[h].pc \in {"calls", "audio"}

\* the continuation of an await that has its value is queued
ContinuationReady(h) ==
    \/ handlers[h].pc = "awaitDecode"
    \/ /\ handlers[h].pc = "awaitSession"
       /\ IF handlers[h].session = 0 THEN TRUE ELSE sess[handlers[h].session].resolved

\* an event callback (a task) may start
TaskReady == ~SyncRunning /\ ~\E h \in HandlerIds : ContinuationReady(h)

----------------------------------------------------------------------------
(* useLiveAssistant.processMessage *)

\* goToNextStep's target without the clamp
NextStepUnclamped(current) == current + 1

\* case 'goToNextStep': Math.min(recipe.steps.length - 1, getCurrentStep() + 1)
NextStepTarget(current) == Min(stepCount - 1, current + 1)

\* case 'goToPreviousStep': Math.max(0, getCurrentStep() - 1)
PreviousStepTarget(current) == Max(0, current - 1)

\* does the local handler of a call raise an error: onAddToShoppingList on an argument
\* that is not a string
CallRaises(fc) == fc.name = "addToShoppingList" /\ AddThrows([isArray |-> FALSE, value |-> fc.arg])

\* the result of a call that does not suspend, read at step index current
CallResult(fc, current) ==
    IF CallRaises(fc) THEN [kind |-> "error", step |-> 0]
    ELSE IF fc.name = "goToNextStep" THEN [kind |-> "moved", step |-> NextStepTarget(current) + 1]
    ELSE IF fc.name = "goToPreviousStep"
         THEN [kind |-> "movedBack", step |-> PreviousStepTarget(current) + 1]
    ELSE IF fc.name = "repeatCurrentStep" THEN [kind |-> "repeating", step |-> current + 1]
    ELSE IF fc.name = "addToShoppingList" THEN [kind |-> "added", step |-> 0]
    ELSE [kind |-> "unknownError", step |-> 0]

\* the functionResponses a response leaves out: the correlation id
UntaggedResponse(fc, result) == [id |-> 0, name |-> fc.name, result |-> result]

\* session.sendToolResponse({functionResponses: {id: fc.id, name: fc.name, response: {result}}})
ToolResponse(fc, result) == [id |-> fc.id, name |-> fc.name, result |-> result]

\* the loop left at the first error response
AbortAfterError(h, response) ==
    [handlers[h] EXCEPT
        !.responses = Append(@, response),
        !.idx = @ + 1,
        !.pc = IF handlers[h].idx = Len(handlers[h].msg.calls) \/ response.result.kind = "error"
               THEN "audio" ELSE "calls"]

\* the handler after the response to call idx has been sent: the next call, or
\* past the loop (its finally block has run) at the audio part
AfterResponse(h, response) ==
    [handlers[h] EXCEPT
        !.responses = Append(@, response),
        !.idx = @ + 1,
        !.pc = IF handlers[h].idx = Len(handlers[h].msg.calls) THEN "audio" ELSE "calls"]

RECURSIVE CallsInProgress(_)
\* the number of function calls in the messages of the handlers 1..n
CallsInProgress(n) ==
    IF n = 0 THEN 0 ELSE CallsInProgress(n - 1) + Len(handlers[n].msg.calls)

LowestIdle == CHOOSE h \in HandlerIds :
                 /\ handlers[h].pc = "idle"
                 /\ \A g \in HandlerIds : handlers[g].pc = "idle" => h <= g

\* the reset applied before the fragment is appended
ResetBeforeAppend(prev, m) ==
    LET reset == IF m.turnComplete THEN <<>> ELSE prev
    IN  IF m.inputText # "" THEN Append(reset, m.inputText) ELSE reset

\* the updates processMessage queues for the user transcript, applied in order to prev:
\* prev => prev + text when the message has an input fragment, then '' when it has
\* turnComplete
UserTranscriptionUpdates(prev, m) ==
    LET appended == IF m.inputText # "" THEN Append(prev, m.inputText) ELSE prev
    IN  IF m.turnComplete THEN <<>> ELSE appended

\* history: the place in arrival order of an audio block that is received now, one
\* more than the blocks scheduled and the blocks of the calls in progress
ArrivalRank ==
    Len(scheduled) + Cardinality({h \in HandlerIds : handlers[h].msg.audio > 0}) + 1

\* callbacks.onmessage of the k-th connect: processMessage up to its first await
Receive(k, m) ==
    /\ sess[k].conn \in {"open", "closing"}
    /\ \E h \in HandlerIds : handlers[h].pc = "idle"
    /\ CallsInProgress(MaxCalls) + Len(m.calls) <= MaxCalls
    /\ assistantTranscription' =
          IF m.outputText # ""
          THEN SetState(assistantTranscription, Append(assistantTranscription, m.outputText))
          ELSE assistantTranscription
    /\ userTranscription' =
          IF m.turnComplete \/ m.inputText # ""
          THEN SetState(userTranscription, UserTranscriptionUpdates(userTranscription, m))
          ELSE userTranscription
    /\ IF m.calls # <<>>
       THEN /\ isProcessingCommand' = SetState(isProcessingCommand, TRUE)
            /\ handlers' = [handlers EXCEPT ![LowestIdle] =
                   [NoHandler EXCEPT !.pc = "awaitSession", !.msg = m,
                                     !.session = sessionPromiseRef,
                                     !.arrival = IF m.audio > 0 THEN ArrivalRank ELSE 0]]
       ELSE /\ handlers' = [handlers EXCEPT ![LowestIdle] =
                   [NoHandler EXCEPT !.pc = "audio", !.msg = m,
                                     !.arrival = IF m.audio > 0 THEN ArrivalRank ELSE 0]]
            /\ UNCHANGED isProcessingCommand
    /\ UNCHANGED <<stepCount, currentStep, currentStepRef, assistantMessage,
                   isAssistantSpeaking, nextStartTimeRef, audioSourcesRef, scheduled>>

\* const session = await sessionPromiseRef.current; if (!session) { ...; return; }
ResumeWithSession(h) ==
    /\ ~SyncRunning
    /\ handlers[h].pc = "awaitSession"
    /\ ContinuationReady(h)
    /\ IF handlers[h].session = 0
       THEN /\ isProcessingCommand' = SetState(isProcessingCommand, FALSE)
            /\ handlers' = [handlers EXCEPT ![h] = NoHandler]
       ELSE /\ handlers' = [handlers EXCEPT ![h].pc = "calls", ![h].idx = 1]
            /\ UNCHANGED isProcessingCommand
    /\ UNCHANGED <<stepCount, currentStep, currentStepRef, assistantMessage,
                   userTranscription, assistantTranscription, isAssistantSpeaking,
                   nextStartTimeRef, audioSourcesRef, scheduled>>

\* one turn of the loop over message.toolCall.functionCalls: the switch on fc.name, then
\* sendToolResponse in the try block or in the catch block; after the last call the
\* finally block. getIngredientSubstitution suspends on callbacks.onGetSubstitution.
RunCall(h) ==
    LET fc == handlers[h].msg.calls[handlers[h].idx]
        last == handlers[h].idx = Len(handlers[h].msg.calls)
        response == ToolResponse(fc, CallResult(fc, currentStepRef))
    IN  /\ handlers[h].pc = "calls"
        /\ IF fc.name = "getIngredientSubstitution"
           THEN /\ handlers' = [handlers EXCEPT ![h].pc = "awaitSubstitution"]
                /\ UNCHANGED <<currentStep, isProcessingCommand,
                               shoppingList, lastListOp>>
           ELSE /\ handlers' = [handlers EXCEPT ![h] = AfterResponse(h, response)]
                /\ currentStep' =
                      IF fc.name = "goToNextStep"
                      THEN SetState(currentStep, NextStepTarget(currentStepRef))
                      ELSE IF fc.name = "goToPreviousStep"
                      THEN SetState(currentStep, PreviousStepTarget(currentStepRef))
                      ELSE IF fc.name = "repeatCurrentStep"
                      THEN SetState(currentStep, currentStepRef)
                      ELSE currentStep
                /\ IF fc.name = "addToShoppingList" /\ ~CallRaises(fc)
                   THEN AddToShoppingList([isArray |-> FALSE, value |-> fc.arg])
                   ELSE UNCHANGED <<shoppingList, lastListOp>>
                /\ isProcessingCommand' =
                      IF last THEN SetState(isProcessingCommand, FALSE) ELSE isProcessingCommand
        /\ UNCHANGED <<stepCount, currentStepRef, assistantMessage, userTranscription,
                       assistantTranscription, isAssistantSpeaking, nextStartTimeRef,
                       audioSourcesRef, scheduled, newItem>>

\* CookingModeView.handleGetSubstitution after its await: the lookup returned (found)
\* or failed, either way a text is returned; processMessage goes on with the response
SubstitutionReturns(h, found) ==
    LET fc == handlers[h].msg.calls[handlers[h].idx]
        last == handlers[h].idx = Len(handlers[h].msg.calls)
        response == ToolResponse(fc, [kind |-> IF found THEN "suggestion" ELSE "sorry",
                                      step |-> 0])
    IN  /\ handlers[h].pc = "awaitSubstitution"
        /\ assistantMessage' = SetState(assistantMessage,
                                        IF found THEN "substitution" ELSE "sorry")
        /\ handlers' = [handlers EXCEPT ![h] = AfterResponse(h, response)]
        /\ isProcessingCommand' =
              IF last THEN SetState(isProcessingCommand, FALSE) ELSE isProcessingCommand
        /\ UNCHANGED <<stepCount, currentStep, currentStepRef, userTranscription,
                       assistantTranscription, isAssistantSpeaking, nextStartTimeRef,
                       audioSourcesRef, scheduled>>

\* setTimeout(() => setAssistantMessage(null), 8000)
AssistantMessageTimeout ==
    /\ assistantMessage # "null"
    /\ mounted
    /\ assistantMessage' = "null"
    /\ UNCHANGED <<stepCount, currentStep, currentStepRef, userTranscription,
                   assistantTranscription, isAssistantSpeaking, isProcessingCommand,
                   nextStartTimeRef, audioSourcesRef, handlers, scheduled>>

\* the audio part up to await decodeAudioData(...)
AudioPart(h) ==
    /\ handlers[h].pc = "audio"
    /\ IF handlers[h].msg.audio > 0 /\ outputAudioContextRef # 0
       THEN /\ isAssistantSpeaking' = SetState(isAssistantSpeaking, TRUE)
            /\ handlers' = [handlers EXCEPT ![h].pc = "awaitDecode"]
       ELSE /\ handlers' = [handlers EXCEPT ![h] = NoHandler]
            /\ UNCHANGED isAssistantSpeaking
    /\ UNCHANGED <<stepCount, currentStep, currentStepRef, assistantMessage,
                   userTranscription, assistantTranscription, isProcessingCommand,
                   nextStartTimeRef, audioSourcesRef, scheduled>>

\* a start time that ignores the blocks already scheduled
StartAtClock(currentTime, nextStartTime) == currentTime

\* const startTime = Math.max(currentTime, nextStartTimeRef.current)
StartTime(currentTime, nextStartTime) == Max(currentTime, nextStartTime)

\* a next start time that leaves a gap after the block
NextStartTimeWithGap(startTime, duration) == startTime + duration + 1

\* nextStartTimeRef.current = startTime + audioBuffer.duration
NextStartTime(startTime, duration) == startTime + duration

\* after await decodeAudioData: the source is made on outputAudioContextRef.current and
\* scheduled. On a closed context the platform either refuses (sourceMade = FALSE: the
\* exception rejects processMessage's promise, which nobody handles) or makes a source
\* that never plays.
ScheduleBlock(h, sourceMade) ==
    LET ctx == outputAudioContextRef
        startTime == StartTime(sess[ctx].currentTime, nextStartTimeRef)
        source == [id |-> Len(scheduled) + 1, ctx |-> ctx, start |-> startTime,
                   duration |-> handlers[h].msg.audio,
                   clock |-> sess[ctx].currentTime, arrival |-> handlers[h].arrival]
    IN  /\ ~SyncRunning
        /\ handlers[h].pc = "awaitDecode"
        /\ sourceMade \/ sess[ctx].outputCtx = "closed"
        /\ handlers' = [handlers EXCEPT ![h] = NoHandler]
        /\ IF sourceMade
           THEN /\ nextStartTimeRef' = NextStartTime(startTime, handlers[h].msg.audio)
                /\ audioSourcesRef' = audioSourcesRef \cup {source}
                /\ scheduled' = Append(scheduled, source)
                /\ UNCHANGED uncaught
           ELSE /\ uncaught' = TRUE
                /\ UNCHANGED <<nextStartTimeRef, audioSourcesRef, scheduled>>
        /\ UNCHANGED <<stepCount, currentStep, currentStepRef, assistantMessage,
                       userTranscription, assistantTranscription, isAssistantSpeaking,
                       isProcessingCommand>>

\* an onended that removes the block and forgets the flag and the transcript
SourceEndedLeavesFlag(source) ==
    /\ source \in audioSourcesRef
    /\ sess[source.ctx].outputCtx = "running"
    /\ sess[source.ctx].currentTime >= source.start + source.duration
    /\ audioSourcesRef' = audioSourcesRef \ {source}
    /\ UNCHANGED <<stepCount, currentStep, currentStepRef, assistantMessage,
                   userTranscription, assistantTranscription, isAssistantSpeaking,
                   isProcessingCommand, nextStartTimeRef, handlers, scheduled>>

\* source.onended: the block has played to its end
SourceEnded(source) ==
    /\ source \in audioSourcesRef
    /\ sess[source.ctx].outputCtx = "running"
    /\ sess[source.ctx].currentTime >= source.start + source.duration
    /\ audioSourcesRef' = audioSourcesRef \ {source}
    /\ IF audioSourcesRef' = {}
       THEN /\ isAssistantSpeaking' = SetState(isAssistantSpeaking, FALSE)
            /\ assistantTranscription' = SetState(assistantTranscription, <<>>)
       ELSE UNCHANGED <<isAssistantSpeaking, assistantTranscription>>
    /\ UNCHANGED <<stepCount, currentStep, currentStepRef, assistantMessage,
                   userTranscription, isProcessingCommand, nextStartTimeRef, handlers,
                   scheduled>>

\* the clock of a running output context advances
ClockTick(k) ==
    /\ sess[k].outputCtx = "running"
    /\ sess[k].currentTime < MaxClock
    /\ sess' = [sess EXCEPT ![k].currentTime = @ + 1]
    /\ UNCHANGED <<mounted, isSessionActive, isMuted, sessionPromiseRef, mediaStreamRef,
                   inputAudioContextRef, outputAudioContextRef, scriptProcessorRef,
                   sourceNodeRef, started, uncaught, lastFrame, lastOp>>

\* CookingModeView renders: currentStepRef.current = currentStep
Render ==
    /\ mounted
    /\ currentStepRef # currentStep
    /\ currentStepRef' = currentStep
    /\ UNCHANGED <<stepCount, currentStep, assistantMessage, userTranscription,
                   assistantTranscription, isAssistantSpeaking, isProcessingCommand,
                   nextStartTimeRef, audioSourcesRef, handlers, scheduled>>

\* the cooking view and the hook as mounted, for a recipe whose number of steps is in steps
AssistantInitFor(steps) ==
    /\ stepCount \in steps
    /\ currentStep = 0
    /\ currentStepRef = 0
    /\ assistantMessage = "null"
    /\ userTranscription = <<>>
    /\ assistantTranscription = <<>>
    /\ isAssistantSpeaking = FALSE
    /\ isProcessingCommand = FALSE
    /\ nextStartTimeRef = 0
    /\ audioSourcesRef = {}
    /\ handlers = [h \in HandlerIds |-> NoHandler]
    /\ scheduled = <<>>

AssistantInit == AssistantInitFor(1..MaxSteps)

----------------------------------------------------------------------------
(* geminiService: the responses of the model and their JSON *)

\* a code unit that is the first half of a surrogate pair, and one that is the second
HighSurrogate == "uD800"

LowSurrogate == "uDC00"

\* a recipe without imageUrl, an image generated for a name, a placeholder for a seed
NoImage == [kind |-> "none", of |-> <<>>]

\* the recipe objects a response may hold, each token standing for the text of one
RecipeTokens == {"A", "B", "S"}

\* the markdown fence that opens a json block, and the fence that closes it
FenceJson == "fence-json"

Fence == "fence"

\* the text of a price estimate object
PricesToken == "P"

\* JSON.parse of the text of a recipe object
RecipeOf(token) ==
    [recipeName |-> IF token = "A" THEN <<"a">>
                    ELSE IF token = "B" THEN <<"a", " ", "b">>
                    ELSE <<"a", HighSurrogate>>,
     steps |-> IF token = "A" THEN 1 ELSE 2,
     imageUrl |-> NoImage]

RECURSIVE ItemsText(_)
\* the texts of the objects, separated by commas
ItemsText(l) ==
    IF l = <<>> THEN <<>>
    ELSE IF Len(l) = 1 THEN <<l[1]>>
    ELSE <<l[1], ",">> \o ItemsText(Tail(l))

\* the text of a JSON array of recipe objects
ArrayText(l) == <<"[">> \o ItemsText(l) \o <<"]">>

RECURSIVE TokenLists(_)
\* the lists of at most n recipe tokens
TokenLists(n) ==
    IF n = 0 THEN { <<>> }
    ELSE TokenLists(n - 1) \cup
         { Append(l, t) : l \in { x \in TokenLists(n - 1) : Len(x) = n - 1 }, t \in RecipeTokens }

\* response.text: arrays of recipes, a truncated array, an empty text, an array inside a
\* markdown fence, a price object
ResponseTexts ==
    { ArrayText(l) : l \in TokenLists(MaxRecipes) } \cup
    { <<"[", "A">>, <<>>, <<FenceJson, "[", "A", "]", Fence>>, <<PricesToken>> }

\* JSON.parse raising a SyntaxError
SyntaxError == [ok |-> FALSE, isArray |-> FALSE, items |-> <<>>]

RECURSIVE ParseItems(_)
\* the elements of an array: object ("," object)*
ParseItems(t) ==
    IF t = <<>> \/ t[1] \notin RecipeTokens THEN SyntaxError
    ELSE IF Len(t) = 1 THEN [ok |-> TRUE, isArray |-> TRUE, items |-> <<RecipeOf(t[1])>>]
    ELSE IF t[2] # "," THEN SyntaxError
    ELSE LET rest == ParseItems(SubSeq(t, 3, Len(t)))
         IN  IF rest.ok
             THEN [ok |-> TRUE, isArray |-> TRUE, items |-> <<RecipeOf(t[1])>> \o rest.items]
             ELSE SyntaxError

\* JSON.parse(text)
JsonParse(t) ==
    IF t = <<"[", "]">> THEN [ok |-> TRUE, isArray |-> TRUE, items |-> <<>>]
    ELSE IF Len(t) >= 3 /\ t[1] = "[" /\ t[Len(t)] = "]"
         THEN ParseItems(SubSeq(t, 2, Len(t) - 1))
    ELSE IF t = <<PricesToken>> THEN [ok |-> TRUE, isArray |-> FALSE, items |-> <<>>]
    ELSE SyntaxError

\* cleanedJsonText: a leading markdown fence (with json) and a trailing fence are removed
StripFences(t) ==
    LET a == IF t # <<>> /\ t[1] = FenceJson THEN Tail(t) ELSE t
    IN  IF a # <<>> /\ a[Len(a)] = Fence THEN SubSeq(a, 1, Len(a) - 1) ELSE a

\* encodeURIComponent raises a URIError on a surrogate that has no other half
EncodeThrows(name) ==
    \E i \in 1..Len(name) :
        \/ name[i] = HighSurrogate /\ (i = Len(name) \/ name[i + 1] # LowSurrogate)
        \/ name[i] = LowSurrogate /\ (i = 1 \/ name[i - 1] # HighSurrogate)

RECURSIVE EncodeURIComponent(_)
\* encodeURIComponent(name) for a name it accepts: the letters stay, a space is %20
EncodeURIComponent(name) ==
    IF name = <<>> THEN <<>>
    ELSE (IF name[1] = " " THEN <<"%", "2", "0">> ELSE <<name[1]>>)
         \o EncodeURIComponent(Tail(name))

\* generateRecipeImage's return value: the data URL of the image made for the name
GeneratedImage(name) == [kind |-> "generated", of |-> name]

\* https://picsum.photos/seed/${encodeURIComponent(recipe.recipeName)}/800/600
PlaceholderImage(name) == [kind |-> "placeholder", of |-> EncodeURIComponent(name)]

----------------------------------------------------------------------------
(* geminiService: generateRecipesWithImages, getFeaturedRecipes, estimateGroceryPrices *)

ServiceOps == {"generateRecipesWithImages", "getFeaturedRecipes", "estimateGroceryPrices"}

\* no response text has been parsed yet
NoText == <<"no-text">>

\* a call of a service operation: pc is idle, awaitModel (generateContent), awaitFallback
\* (generateContent of getFeaturedRecipesWithoutSearch), awaitImage (generateRecipeImage),
\* awaitDelay (delay(1200)), returned or threw; parsed is the last text handed to
\* JSON.parse; recipes, i and out are addImagesToRecipes' argument, loop position and
\* recipesWithImages; raised tells what threw; log is the history of the image requests
NoCall ==
    [op |-> "none", pc |-> "idle", parsed |-> NoText, recipes |-> <<>>, i |-> 0,
     out |-> <<>>, result |-> <<>>, prices |-> FALSE, raised |-> "none", log |-> <<>>]

\* the operation returns value
Returned(c, value) == [c EXCEPT !.pc = "returned", !.result = value]

\* an exception leaves the operation
Threw(c, what) == [c EXCEPT !.pc = "threw", !.raised = what]

\* an entry of the history of the image requests
LogEntry(c, ev, i) == [ev |-> ev, i |-> i, name |-> c.recipes[i].recipeName]

\* for (const recipe of recipes): the next turn issues its request, after the last turn
\* recipesWithImages is returned
NextIteration(c) ==
    IF c.i = Len(c.recipes) THEN Returned(c, c.out)
    ELSE [c EXCEPT !.i = c.i + 1, !.pc = "awaitImage",
                   !.log = Append(c.log, LogEntry(c, "issue", c.i + 1))]

\* addImagesToRecipes(recipes) up to its first await
AddImagesToRecipes(c, recipes) == NextIteration([c EXCEPT !.recipes = recipes, !.i = 0])

\* { ...recipe, imageUrl } with the other fields dropped
OnlyNameAndImage(recipe, imageUrl) ==
    [recipeName |-> recipe.recipeName, steps |-> 0, imageUrl |-> imageUrl]

\* { ...recipe, imageUrl }
WithImage(recipe, imageUrl) == [recipe EXCEPT !.imageUrl = imageUrl]

\* a loop that goes on to the next recipe without awaiting the delay
AfterPushNoDelay(c) == NextIteration(c)

\* after recipesWithImages.push(...): await delay(1200)
AfterPush(c) == [c EXCEPT !.pc = "awaitDelay"]

\* a service operation is called; the one before it, if any, is over
StartCall(op) ==
    /\ call.pc \in {"idle", "returned", "threw"}
    /\ call' = [NoCall EXCEPT !.op = op, !.pc = "awaitModel"]

\* generateContent resolves with a response whose text is text
ModelResponds(text) ==
    LET parsedText == IF call.op = "getFeaturedRecipes" THEN StripFences(text) ELSE text
        data == JsonParse(parsedText)
        c == [call EXCEPT !.parsed = parsedText]
    IN  /\ call.pc = "awaitModel"
        /\ call' =
             IF call.op = "estimateGroceryPrices"
             THEN IF data.ok THEN [Returned(c, <<>>) EXCEPT !.prices = TRUE]
                  ELSE Threw(c, "parse")
             ELSE IF call.op = "generateRecipesWithImages"
             THEN IF ~data.ok THEN AddImagesToRecipes(c, <<>>)
                  ELSE IF ~data.isArray THEN Threw(c, "notIterable")
                  ELSE AddImagesToRecipes(c, data.items)
             ELSE IF ~data.ok \/ (data.isArray /\ data.items = <<>>)
                  THEN [c EXCEPT !.pc = "awaitFallback"]
                  ELSE IF ~data.isArray THEN Threw(c, "notIterable")
                  ELSE AddImagesToRecipes(c, data.items)

\* generateContent rejects
ModelRejects ==
    /\ call.pc = "awaitModel"
    /\ call' = IF call.op = "getFeaturedRecipes" THEN [call EXCEPT !.pc = "awaitFallback"]
               ELSE Threw(call, "request")

\* getFeaturedRecipesWithoutSearch: generateContent resolves with a response whose text
\* is text, and getFeaturedRecipes goes on with what the fallback returned
FallbackResponds(text) ==
    LET data == JsonParse(text)
        c == [call EXCEPT !.parsed = text]
    IN  /\ call.pc = "awaitFallback"
        /\ call' = IF ~data.ok \/ (data.isArray /\ data.items = <<>>) THEN Returned(c, <<>>)
                   ELSE IF ~data.isArray THEN Threw(c, "notIterable")
                   ELSE AddImagesToRecipes(c, data.items)

\* getFeaturedRecipesWithoutSearch: generateContent rejects
FallbackRejects ==
    /\ call.pc = "awaitFallback"
    /\ call' = Threw(call, "request")

\* generateRecipeImage settles: it returns the image (ok) or throws, and the catch block
\* makes the placeholder
ImageSettles(ok) ==
    LET recipe == call.recipes[call.i]
        c == [call EXCEPT !.log = Append(call.log,
                                          LogEntry(call, IF ok THEN "settled" ELSE "failed", call.i))]
    IN  /\ call.pc = "awaitImage"
        /\ call' =
             IF ok
             THEN AfterPush([c EXCEPT !.out =
                      Append(c.out, WithImage(recipe, GeneratedImage(recipe.recipeName)))])
             ELSE IF EncodeThrows(recipe.recipeName) THEN Threw(c, "placeholder")
             ELSE AfterPush([c EXCEPT !.out =
                      Append(c.out, WithImage(recipe, PlaceholderImage(recipe.recipeName)))])

\* the timer of delay(1200) fires
DelayElapses ==
    /\ call.pc = "awaitDelay"
    /\ call' = NextIteration([call EXCEPT !.log = Append(call.log, LogEntry(call, "delay", call.i))])

ServiceInit == call = NoCall

----------------------------------------------------------------------------
(* App: the pantry and the fridge ingredients *)

\* what the speech recogniser may deliver to the pantry form
RemoveWord == <<"r","e","m","o","v","e"," ">>

ClearPantryWords == <<"c","l","e","a","r"," ","p","a","n","t","r","y">>

PantryVoiceCommands ==
    { AddWord \o l : l \in SpokenLists(MaxItems) } \cup
    { RemoveWord \o <<"b">>, ClearAllWords, ClearPantryWords, <<"a"," ">> }

\* what the user may type into the pantry form
PantryInputs == { <<" ","B">>, <<" ">> }

\* response.text of analyzeFridge
FridgeTexts == { <<"a">>, <<"A",","," ","c">>, <<"c",",","c">>, <<",">> }

RECURSIVE SplitCommaFrom(_, _, _)
SplitCommaFrom(s, i, cur) ==
    IF i > Len(s) THEN <<cur>>
    ELSE IF s[i] = "," THEN <<cur>> \o SplitCommaFrom(s, i + 1, <<>>)
    ELSE SplitCommaFrom(s, i + 1, Append(cur, s[i]))

\* text.split(',').map(item => item.trim().toLowerCase()).filter(Boolean)
AnalyzeFridge(text) ==
    LET parts == SplitCommaFrom(text, 1, <<>>)
    IN  SelectSeq([i \in 1..Len(parts) |-> ToLowerCase(Trim(parts[i]))], NonEmpty)

Includes(list, x) == \E i \in 1..Len(list) : list[i] = x

RECURSIVE SpreadOfSet(_)
\* [...new Set(list)]: the first occurrence of every value, in order
SpreadOfSet(list) ==
    IF list = <<>> THEN <<>>
    ELSE LET front == SpreadOfSet(SubSeq(list, 1, Len(list) - 1))
             last == list[Len(list)]
         IN  IF Includes(front, last) THEN front ELSE Append(front, last)

\* [...new Set([...fridge, ...pantry])]
AllIngredients(fridge, pantry) == SpreadOfSet(fridge \o pantry)

\* handleAddPantryIngredient as the render that saw the list seen created it, applied to
\* the state prev: the includes test reads seen, the updater appends to prev
HandleAddPantryIngredient(seen, prev, ingredient) ==
    LET formattedIngredient == ToLowerCase(Trim(ingredient))
    IN  IF formattedIngredient # <<>> /\ ~Includes(seen, formattedIngredient)
        THEN Append(prev, formattedIngredient)
        ELSE prev

\* handleRemovePantryIngredient
HandleRemovePantryIngredient(prev, ingredientToRemove) ==
    SelectSeq(prev, LAMBDA ing : ing # ingredientToRemove)

RECURSIVE AddEach(_, _, _)
\* items.forEach(item => { if (item.trim()) onAddIngredient(item.trim()); }) within one
\* event: every call is made by the same render, so every call tests the list seen
AddEach(seen, prev, items) ==
    IF items = <<>> THEN prev
    ELSE AddEach(seen,
                 IF Trim(items[1]) # <<>>
                 THEN HandleAddPantryIngredient(seen, prev, Trim(items[1]))
                 ELSE prev,
                 Tail(items))

NoUpload == [pc |-> "idle", pantry |-> <<>>]

NoGenerate == [by |-> "none", ingredients |-> <<>>, fridge |-> <<>>, pantry |-> <<>>]

\* the pantry form is rendered (App.renderContent shows only the spinner while loading)
PantryShown == ~isLoading

\* the input's onChange
TypeIngredient(text) ==
    /\ PantryShown
    /\ inputValue' = text
    /\ UNCHANGED <<pantryIngredients, fridgeIngredients, isLoading, upload, lastGenerate>>

\* PantryInput.handleAdd
HandleAdd ==
    /\ PantryShown
    /\ Trim(inputValue) # <<>>
    /\ pantryIngredients' =
          HandleAddPantryIngredient(pantryIngredients, pantryIngredients, inputValue)
    /\ inputValue' = <<>>
    /\ UNCHANGED <<fridgeIngredients, isLoading, upload, lastGenerate>>

\* PantryInput.handleVoiceResult
HandleVoiceResult(command) ==
    LET lowerCaseCommand == ToLowerCase(command)
    IN  /\ PantryShown
        /\ IF StartsWith(lowerCaseCommand, AddWord)
           THEN /\ pantryIngredients' =
                      AddEach(pantryIngredients, pantryIngredients,
                              SplitAndComma(RemoveFirst(lowerCaseCommand, AddWord)))
                /\ UNCHANGED inputValue
           ELSE IF StartsWith(lowerCaseCommand, RemoveWord)
           THEN /\ pantryIngredients' =
                      (IF Trim(RemoveFirst(lowerCaseCommand, RemoveWord)) # <<>>
                       THEN HandleRemovePantryIngredient(pantryIngredients,
                                Trim(RemoveFirst(lowerCaseCommand, RemoveWord)))
                       ELSE pantryIngredients)
                /\ UNCHANGED inputValue
           ELSE IF lowerCaseCommand \in {ClearAllWords, ClearPantryWords}
           THEN /\ pantryIngredients' = <<>>
                /\ UNCHANGED inputValue
           ELSE /\ inputValue' = command
                /\ UNCHANGED pantryIngredients
        /\ UNCHANGED <<fridgeIngredients, isLoading, upload, lastGenerate>>

\* the remove button of the entry at position i
RemoveButton(i) ==
    /\ PantryShown
    /\ i \in 1..Len(pantryIngredients)
    /\ pantryIngredients' = HandleRemovePantryIngredient(pantryIngredients, pantryIngredients[i])
    /\ UNCHANGED <<fridgeIngredients, inputValue, isLoading, upload, lastGenerate>>

\* ImageUploader.handleFileChange: the file reader is started and its onload holds the
\* onImageUpload of this render, which closed over the pantry of this render
HandleFileChange ==
    /\ ~isLoading
    /\ upload.pc = "idle"
    /\ upload' = [pc |-> "reading", pantry |-> pantryIngredients]
    /\ UNCHANGED <<pantryIngredients, fridgeIngredients, inputValue, isLoading, lastGenerate>>

\* reader.onload: handleImageUpload runs up to its await of analyzeFridge
ReaderLoaded ==
    /\ upload.pc = "reading"
    /\ isLoading' = TRUE
    /\ upload' = [upload EXCEPT !.pc = "analyzing"]
    /\ UNCHANGED <<pantryIngredients, fridgeIngredients, inputValue, lastGenerate>>

\* ImageUploader.handleUsePhoto: handleImageUpload of the current render is called at once
HandleUsePhoto ==
    /\ ~isLoading
    /\ upload.pc = "idle"
    /\ isLoading' = TRUE
    /\ upload' = [pc |-> "analyzing", pantry |-> pantryIngredients]
    /\ UNCHANGED <<pantryIngredients, fridgeIngredients, inputValue, lastGenerate>>

\* handleRunRecipeGeneration up to its await: an empty list is refused with an error
\* message and nothing is requested
HandleRunRecipeGeneration(by, ingredients, fridge) ==
    IF ingredients = <<>>
    THEN /\ upload' = NoUpload
         /\ UNCHANGED <<isLoading, lastGenerate>>
    ELSE /\ isLoading' = TRUE
         /\ upload' = [pc |-> "generating", pantry |-> <<>>]
         /\ lastGenerate' = [by |-> by, ingredients |-> ingredients, fridge |-> fridge,
                             pantry |-> pantryIngredients]

\* handleImageUpload after analyzeFridge has resolved with text
AnalyzeFridgeResolves(text) ==
    LET ingredientsFromPhoto == AnalyzeFridge(text)
        allIngredients == AllIngredients(ingredientsFromPhoto, upload.pantry)
    IN  /\ upload.pc = "analyzing"
        /\ fridgeIngredients' = ingredientsFromPhoto
        /\ HandleRunRecipeGeneration("photo", allIngredients, ingredientsFromPhoto)
        /\ UNCHANGED <<pantryIngredients, inputValue>>

\* handleImageUpload when analyzeFridge rejects
AnalyzeFridgeRejects ==
    /\ upload.pc = "analyzing"
    /\ isLoading' = FALSE
    /\ upload' = NoUpload
    /\ UNCHANGED <<pantryIngredients, fridgeIngredients, inputValue, lastGenerate>>

\* the Find Recipes button, shown while the pantry is not empty and the fridge is
HandleManualGenerate ==
    /\ PantryShown
    /\ upload.pc = "idle"
    /\ Len(pantryIngredients) > 0 /\ fridgeIngredients = <<>>
    /\ HandleRunRecipeGeneration("manual",
                                 AllIngredients(fridgeIngredients, pantryIngredients),
                                 fridgeIngredients)
    /\ UNCHANGED <<pantryIngredients, fridgeIngredients, inputValue>>

\* generateRecipesWithImages settles either way: the finally block of
\* handleRunRecipeGeneration
GenerationSettles ==
    /\ upload.pc = "generating"
    /\ isLoading' = FALSE
    /\ upload' = NoUpload
    /\ lastGenerate' = NoGenerate
    /\ UNCHANGED <<pantryIngredients, fridgeIngredients, inputValue>>

PantryInit ==
    /\ pantryIngredients = <<>>
    /\ fridgeIngredients = <<>>
    /\ inputValue = <<>>
    /\ isLoading = FALSE
    /\ upload = NoUpload
    /\ lastGenerate = NoGenerate

----------------------------------------------------------------------------
(* useLiveAssistant: the capture conversion of scriptProcessor.onaudioprocess *)

\* a sample of the input buffer, as the numerator of a fraction of SampleSteps
Samples == (0 - SampleSteps)..SampleSteps

\* the integer part of num / den, rounded toward zero (ToIntegerOrInfinity)
TruncatedQuotient(num, den) ==
    IF num >= 0 THEN num \div den ELSE 0 - ((0 - num) \div den)

\* what an Int16Array element holds after the integer n is assigned to it (ToInt16):
\* n modulo 2^16, taken in [-32768, 32767]
ToInt16(n) ==
    LET m == n % 65536
    IN  IF m >= 32768 THEN m - 65536 ELSE m

\* int16[i] = inputData[i] * 32768 for the sample s / SampleSteps
ConvertSample(s) == ToInt16(TruncatedQuotient(s * 32768, SampleSteps))

NoBlock == [sample |-> 0, int16 |-> 0, taken |-> FALSE]

\* onaudioprocess converts a block (one sample of it is followed)
CaptureBlock(s) ==
    lastBlock' = [sample |-> s, int16 |-> ConvertSample(s), taken |-> TRUE]

CaptureInit == lastBlock = NoBlock

----------------------------------------------------------------------------
(* useVoiceRecognition *)

RecognitionIds == 1..MaxRecognitions

NoRecognition == [made |-> FALSE, running |-> FALSE, attached |-> FALSE]

\* the component (PantryInput) can render once more: the effect of the render can make
\* its SpeechRecognition
CanRender == recognitionRef + (IF effectPending THEN 1 ELSE 0) < MaxRecognitions

\* the effect of useVoiceRecognition, which runs after every render of PantryInput
\* (its dependency onResult is handleVoiceResult, a new function at every render): the
\* cleanup of the previous run removes the listeners of its recognition and calls
\* stop() on it, then a new SpeechRecognition is made, stored in recognitionRef and
\* given listeners. A recognition that was stopped still fires its end event.
RunEffect ==
    /\ effectPending
    /\ recognitionRef < MaxRecognitions
    /\ effectPending' = FALSE
    /\ recognitionRef' = recognitionRef + 1
    /\ recognitions' = [r \in RecognitionIds |->
          IF r = recognitionRef + 1
          THEN [made |-> TRUE, running |-> FALSE, attached |-> TRUE]
          ELSE IF r = recognitionRef
          THEN [recognitions[r] EXCEPT !.attached = FALSE]
          ELSE recognitions[r]]
    /\ UNCHANGED <<isListening, lastResult>>

\* startListening (the microphone button while isListening is false)
StartListening ==
    /\ CanRender
    /\ recognitionRef # 0
    /\ ~isListening
    /\ ~recognitions[recognitionRef].running
    /\ recognitions' = [recognitions EXCEPT ![recognitionRef].running = TRUE]
    /\ isListening' = TRUE
    /\ effectPending' = TRUE
    /\ UNCHANGED <<recognitionRef, lastResult>>

\* stopListening (the microphone button while isListening is true); the recognition
\* ends with its end event
StopListening ==
    /\ CanRender
    /\ recognitionRef # 0
    /\ isListening
    /\ isListening' = FALSE
    /\ effectPending' = TRUE
    /\ UNCHANGED <<recognitionRef, recognitions, lastResult>>

\* the result event of a running recognition, with a final transcript or an interim
\* one: handleResult if it is still attached (setTranscript, and onResult for a final
\* transcript, which is handleVoiceResult of the render that made the recognition)
RecognitionResult(r, final) ==
    /\ CanRender
    /\ recognitions[r].running
    /\ IF recognitions[r].attached
       THEN /\ effectPending' = TRUE
            /\ lastResult' = IF final THEN "delivered" ELSE lastResult
            /\ IF final
               THEN \E command \in PantryVoiceCommands : HandleVoiceResult(command)
               ELSE UNCHANGED pantryVars
       ELSE /\ lastResult' = IF final THEN "lost" ELSE lastResult
            /\ UNCHANGED <<effectPending, pantryVars>>
    /\ UNCHANGED <<isListening, recognitionRef, recognitions>>

\* the end event of a recognition: handleEnd if it is still attached
RecognitionEnd(r) ==
    /\ CanRender
    /\ recognitions[r].running
    /\ recognitions' = [recognitions EXCEPT ![r].running = FALSE]
    /\ IF recognitions[r].attached
       THEN /\ isListening' = FALSE
            /\ effectPending' = (effectPending \/ isListening)
       ELSE UNCHANGED <<isListening, effectPending>>
    /\ UNCHANGED <<recognitionRef, lastResult>>

\* the error event of a recognition (the end event follows it): handleError if it is
\* still attached
RecognitionError(r) ==
    /\ CanRender
    /\ recognitions[r].running
    /\ IF recognitions[r].attached
       THEN /\ isListening' = FALSE
            /\ effectPending' = TRUE
       ELSE UNCHANGED <<isListening, effectPending>>
    /\ UNCHANGED <<recognitionRef, recognitions, lastResult>>

VoiceInit ==
    /\ isListening = FALSE
    /\ recognitionRef = 0
    /\ recognitions = [r \in RecognitionIds |-> NoRecognition]
    /\ effectPending = TRUE
    /\ lastResult = "none"

----------------------------------------------------------------------------
(* Specifications *)

Init ==
    /\ ListInit /\ SessionInit /\ AssistantInit /\ ServiceInit /\ PantryInit
    /\ CaptureInit /\ VoiceInit

\* the shopping list under the operations of the shopping-list view and the recipe cards
ListNext ==
    \/ (\E text \in RawNames : TypeNewItem(text)) /\ UNCHANGED <<captureVars, voiceVars, serviceVars, pantryVars, sessionVars, assistantVars>>
    \/ HandleAddItem /\ UNCHANGED <<captureVars, voiceVars, serviceVars, pantryVars, sessionVars, assistantVars>>
    \/ (\E command \in ListVoiceCommands : ListVoiceResult(command))
          /\ UNCHANGED <<captureVars, voiceVars, serviceVars, pantryVars, sessionVars, assistantVars>>
    \/ ClearButton /\ UNCHANGED <<captureVars, voiceVars, serviceVars, pantryVars, sessionVars, assistantVars>>
    \/ (\E missing \in MissingIngredientLists : RecipeCardAddAll(missing))
          /\ UNCHANGED <<captureVars, voiceVars, serviceVars, pantryVars, sessionVars, assistantVars>>
    \/ (\E item \in RawNames : RecipeCardAddOne(item))
          /\ UNCHANGED <<captureVars, voiceVars, serviceVars, pantryVars, sessionVars, assistantVars>>

SpecList == Init /\ [][ListNext]_vars

\* the session's life cycle and the capture pipeline
SessionNext ==
    \/ StartSession /\ UNCHANGED <<captureVars, voiceVars, serviceVars, pantryVars, listVars, assistantVars>>
    \/ (\E k \in SessionIds : MicGranted(k)) /\ UNCHANGED <<captureVars, voiceVars, serviceVars, pantryVars, listVars, assistantVars>>
    \/ (\E k \in SessionIds : MicDenied(k)) /\ UNCHANGED <<captureVars, voiceVars, serviceVars, pantryVars, listVars, assistantVars>>
    \/ (\E k \in SessionIds : ConnectThrows(k)) /\ UNCHANGED <<captureVars, voiceVars, serviceVars, pantryVars, listVars, assistantVars>>
    \/ (\E k \in SessionIds : ConnectFailed(k)) /\ UNCHANGED <<captureVars, voiceVars, serviceVars, pantryVars, listVars, assistantVars>>
    \/ (\E k \in SessionIds, nodesMade \in BOOLEAN : OnOpen(k, nodesMade))
          /\ UNCHANGED <<captureVars, voiceVars, serviceVars, pantryVars, listVars, assistantVars>>
    \/ (\E k \in SessionIds : AudioProcess(k)) /\ UNCHANGED <<captureVars, voiceVars, serviceVars, pantryVars, listVars, assistantVars>>
    \/ ToggleMute /\ UNCHANGED <<captureVars, voiceVars, serviceVars, pantryVars, listVars, assistantVars>>
    \/ EndSessionButton /\ UNCHANGED <<captureVars, voiceVars, serviceVars, pantryVars, listVars, assistantVars>>
    \/ Unmount /\ UNCHANGED <<captureVars, voiceVars, serviceVars, pantryVars, listVars, assistantVars>>
    \/ (\E k \in SessionIds : OnClose(k)) /\ UNCHANGED <<captureVars, voiceVars, serviceVars, pantryVars, listVars, assistantVars>>

SpecSession == Init /\ [][SessionNext]_vars

\* one session from its start to its end, the function-call batches it receives and
\* the renders of the cooking view
DispatchNext ==
    \/ started = 0 /\ StartSession /\ UNCHANGED <<captureVars, voiceVars, serviceVars, pantryVars, listVars, assistantVars>>
    \/ (\E k \in SessionIds : MicGranted(k)) /\ UNCHANGED <<captureVars, voiceVars, serviceVars, pantryVars, listVars, assistantVars>>
    \/ (\E k \in SessionIds : OnOpen(k, TRUE)) /\ UNCHANGED <<captureVars, voiceVars, serviceVars, pantryVars, listVars, assistantVars>>
    \/ TaskReady /\ EndSessionButton /\ UNCHANGED <<captureVars, voiceVars, serviceVars, pantryVars, listVars, assistantVars>>
    \/ TaskReady /\ (\E k \in SessionIds : OnClose(k))
          /\ UNCHANGED <<captureVars, voiceVars, serviceVars, pantryVars, listVars, assistantVars>>
    \/ TaskReady /\ (\E k \in SessionIds, m \in ToolCallMessages : Receive(k, m))
          /\ UNCHANGED <<captureVars, voiceVars, serviceVars, pantryVars, listVars, sessionVars>>
    \/ (\E h \in HandlerIds : ResumeWithSession(h)) /\ UNCHANGED <<captureVars, voiceVars, serviceVars, pantryVars, listVars, sessionVars>>
    \/ (\E h \in HandlerIds : RunCall(h)) /\ UNCHANGED <<captureVars, voiceVars, serviceVars, pantryVars, sessionVars>>
    \/ TaskReady /\ (\E h \in HandlerIds, found \in BOOLEAN : SubstitutionReturns(h, found))
          /\ UNCHANGED <<captureVars, voiceVars, serviceVars, pantryVars, listVars, sessionVars>>
    \/ (\E h \in HandlerIds : AudioPart(h)) /\ UNCHANGED <<captureVars, voiceVars, serviceVars, pantryVars, listVars, sessionVars>>
    \/ TaskReady /\ AssistantMessageTimeout /\ UNCHANGED <<captureVars, voiceVars, serviceVars, pantryVars, listVars, sessionVars>>
    \/ TaskReady /\ Render /\ UNCHANGED <<captureVars, voiceVars, serviceVars, pantryVars, listVars, sessionVars>>

SpecDispatch == Init /\ [][DispatchNext]_vars

\* the same for a recipe of one step more than MaxSteps, so that a batch of MaxCalls
\* goToNextStep calls does not reach the last step
LongRecipeInit ==
    /\ ListInit /\ SessionInit /\ AssistantInitFor({MaxSteps + 1}) /\ ServiceInit /\ PantryInit
    /\ CaptureInit /\ VoiceInit

SpecLongRecipe == LongRecipeInit /\ [][DispatchNext]_vars

\* one session, the audio blocks it receives and their playback
PlaybackNext ==
    \/ started = 0 /\ StartSession /\ UNCHANGED <<captureVars, voiceVars, serviceVars, pantryVars, listVars, assistantVars>>
    \/ (\E k \in SessionIds : MicGranted(k)) /\ UNCHANGED <<captureVars, voiceVars, serviceVars, pantryVars, listVars, assistantVars>>
    \/ (\E k \in SessionIds : OnOpen(k, TRUE)) /\ UNCHANGED <<captureVars, voiceVars, serviceVars, pantryVars, listVars, assistantVars>>
    \/ TaskReady /\ Len(scheduled) + Cardinality({h \in HandlerIds : handlers[h].pc # "idle"}) < MaxBlocks
          /\ (\E k \in SessionIds, m \in AudioMessages : Receive(k, m))
          /\ UNCHANGED <<captureVars, voiceVars, serviceVars, pantryVars, listVars, sessionVars>>
    \/ (\E h \in HandlerIds : AudioPart(h)) /\ UNCHANGED <<captureVars, voiceVars, serviceVars, pantryVars, listVars, sessionVars>>
    \/ (\E h \in HandlerIds : ScheduleBlock(h, TRUE))
          /\ UNCHANGED <<captureVars, voiceVars, serviceVars, pantryVars, listVars, mounted, isSessionActive, isMuted, sessionPromiseRef,
                         mediaStreamRef, inputAudioContextRef, outputAudioContextRef,
                         scriptProcessorRef, sourceNodeRef, started, sess, lastFrame, lastOp>>
    \/ TaskReady /\ (\E source \in audioSourcesRef : SourceEnded(source))
          /\ UNCHANGED <<captureVars, voiceVars, serviceVars, pantryVars, listVars, sessionVars>>
    \/ TaskReady /\ (\E k \in SessionIds : ClockTick(k))
          /\ UNCHANGED <<captureVars, voiceVars, serviceVars, pantryVars, listVars, assistantVars>>

SpecPlayback == Init /\ [][PlaybackNext]_vars

\* the operations of geminiService that parse JSON and add images, one call at a time
ServiceNext ==
    \/ (\E op \in ServiceOps : StartCall(op))
          /\ UNCHANGED <<captureVars, voiceVars, pantryVars, listVars, sessionVars, assistantVars>>
    \/ (\E text \in ResponseTexts : ModelResponds(text))
          /\ UNCHANGED <<captureVars, voiceVars, pantryVars, listVars, sessionVars, assistantVars>>
    \/ ModelRejects /\ UNCHANGED <<captureVars, voiceVars, pantryVars, listVars, sessionVars, assistantVars>>
    \/ (\E text \in ResponseTexts : FallbackResponds(text))
          /\ UNCHANGED <<captureVars, voiceVars, pantryVars, listVars, sessionVars, assistantVars>>
    \/ FallbackRejects /\ UNCHANGED <<captureVars, voiceVars, pantryVars, listVars, sessionVars, assistantVars>>
    \/ (\E ok \in BOOLEAN : ImageSettles(ok))
          /\ UNCHANGED <<captureVars, voiceVars, pantryVars, listVars, sessionVars, assistantVars>>
    \/ DelayElapses /\ UNCHANGED <<captureVars, voiceVars, pantryVars, listVars, sessionVars, assistantVars>>

SpecService == Init /\ [][ServiceNext]_vars

PantryNext ==
    \/ (\E text \in PantryInputs : TypeIngredient(text))
          /\ UNCHANGED <<captureVars, voiceVars, listVars, sessionVars, assistantVars, serviceVars>>
    \/ HandleAdd /\ UNCHANGED <<captureVars, voiceVars, listVars, sessionVars, assistantVars, serviceVars>>
    \/ (\E command \in PantryVoiceCommands : HandleVoiceResult(command))
          /\ UNCHANGED <<captureVars, voiceVars, listVars, sessionVars, assistantVars, serviceVars>>
    \/ (\E i \in 1..Len(pantryIngredients) : RemoveButton(i))
          /\ UNCHANGED <<captureVars, voiceVars, listVars, sessionVars, assistantVars, serviceVars>>
    \/ HandleFileChange /\ UNCHANGED <<captureVars, voiceVars, listVars, sessionVars, assistantVars, serviceVars>>
    \/ ReaderLoaded /\ UNCHANGED <<captureVars, voiceVars, listVars, sessionVars, assistantVars, serviceVars>>
    \/ HandleUsePhoto /\ UNCHANGED <<captureVars, voiceVars, listVars, sessionVars, assistantVars, serviceVars>>
    \/ (\E text \in FridgeTexts : AnalyzeFridgeResolves(text))
          /\ UNCHANGED <<captureVars, voiceVars, listVars, sessionVars, assistantVars, serviceVars>>
    \/ AnalyzeFridgeRejects /\ UNCHANGED <<captureVars, voiceVars, listVars, sessionVars, assistantVars, serviceVars>>
    \/ HandleManualGenerate /\ UNCHANGED <<captureVars, voiceVars, listVars, sessionVars, assistantVars, serviceVars>>
    \/ GenerationSettles /\ UNCHANGED <<captureVars, voiceVars, listVars, sessionVars, assistantVars, serviceVars>>

SpecPantry == Init /\ [][PantryNext]_vars

\* messages with transcription fragments and turn boundaries
TranscriptMessages ==
    { [NoMessage EXCEPT !.inputText = t, !.outputText = o, !.turnComplete = c] :
        t \in {"", "u", "v"}, o \in {"", "w"}, c \in BOOLEAN }

\* onmessage for a message that leaves both buffers within MaxFragments fragments
ReceiveTranscript ==
    /\ TaskReady
    /\ \E k \in SessionIds, m \in TranscriptMessages :
          /\ Len(UserTranscriptionUpdates(userTranscription, m)) <= MaxFragments
          /\ Len(assistantTranscription) + (IF m.outputText # "" THEN 1 ELSE 0) <= MaxFragments
          /\ Receive(k, m)
    /\ UNCHANGED <<captureVars, voiceVars, serviceVars, pantryVars, listVars, sessionVars>>

\* one session and the transcription messages it receives
TranscriptNext ==
    \/ started = 0 /\ StartSession /\ UNCHANGED <<captureVars, voiceVars, serviceVars, pantryVars, listVars, assistantVars>>
    \/ (\E k \in SessionIds : MicGranted(k)) /\ UNCHANGED <<captureVars, voiceVars, serviceVars, pantryVars, listVars, assistantVars>>
    \/ (\E k \in SessionIds : OnOpen(k, TRUE)) /\ UNCHANGED <<captureVars, voiceVars, serviceVars, pantryVars, listVars, assistantVars>>
    \/ ReceiveTranscript
    \/ (\E h \in HandlerIds : AudioPart(h)) /\ UNCHANGED <<captureVars, voiceVars, serviceVars, pantryVars, listVars, sessionVars>>
    \/ TaskReady /\ EndSessionButton /\ UNCHANGED <<captureVars, voiceVars, serviceVars, pantryVars, listVars, assistantVars>>
    \/ TaskReady /\ Unmount /\ UNCHANGED <<captureVars, voiceVars, serviceVars, pantryVars, listVars, assistantVars>>
    \/ TaskReady /\ (\E k \in SessionIds : OnClose(k))
          /\ UNCHANGED <<captureVars, voiceVars, serviceVars, pantryVars, listVars, assistantVars>>

SpecTranscript == Init /\ [][TranscriptNext]_vars

\* messages that carry an audio block, alone or together with a batch of one call
MixedMessages ==
    { [NoMessage EXCEPT !.audio = d] : d \in 1..MaxDuration } \cup
    { [NoMessage EXCEPT !.calls = b, !.audio = d] :
        b \in { c \in FunctionCallBatches :
                  Len(c) = 1 /\ c[1].name \in {"goToNextStep", "getIngredientSubstitution"} },
        d \in 1..MaxDuration }

\* onmessage for a message with an audio block, at most MaxBlocks blocks in all
ReceiveMixed ==
    /\ TaskReady
    /\ Len(scheduled) + Cardinality({h \in HandlerIds : handlers[h].pc # "idle"}) < MaxBlocks
    /\ \E k \in SessionIds, m \in MixedMessages : Receive(k, m)
    /\ UNCHANGED <<captureVars, voiceVars, serviceVars, pantryVars, listVars, sessionVars>>

\* one session receiving audio blocks, some in messages that also carry a function call
MixedNext ==
    \/ started = 0 /\ StartSession /\ UNCHANGED <<captureVars, voiceVars, serviceVars, pantryVars, listVars, assistantVars>>
    \/ (\E k \in SessionIds : MicGranted(k)) /\ UNCHANGED <<captureVars, voiceVars, serviceVars, pantryVars, listVars, assistantVars>>
    \/ (\E k \in SessionIds : OnOpen(k, TRUE)) /\ UNCHANGED <<captureVars, voiceVars, serviceVars, pantryVars, listVars, assistantVars>>
    \/ ReceiveMixed
    \/ (\E h \in HandlerIds : ResumeWithSession(h)) /\ UNCHANGED <<captureVars, voiceVars, serviceVars, pantryVars, listVars, sessionVars>>
    \/ (\E h \in HandlerIds : RunCall(h)) /\ UNCHANGED <<captureVars, voiceVars, serviceVars, pantryVars, sessionVars>>
    \/ TaskReady /\ (\E h \in HandlerIds, found \in BOOLEAN : SubstitutionReturns(h, found))
          /\ UNCHANGED <<captureVars, voiceVars, serviceVars, pantryVars, listVars, sessionVars>>
    \/ (\E h \in HandlerIds : AudioPart(h)) /\ UNCHANGED <<captureVars, voiceVars, serviceVars, pantryVars, listVars, sessionVars>>
    \/ (\E h \in HandlerIds : ScheduleBlock(h, TRUE))
          /\ UNCHANGED <<captureVars, voiceVars, serviceVars, pantryVars, listVars, mounted, isSessionActive, isMuted, sessionPromiseRef,
                         mediaStreamRef, inputAudioContextRef, outputAudioContextRef,
                         scriptProcessorRef, sourceNodeRef, started, sess, lastFrame, lastOp>>
    \/ TaskReady /\ Render /\ UNCHANGED <<captureVars, voiceVars, serviceVars, pantryVars, listVars, sessionVars>>

SpecMixed == Init /\ [][MixedNext]_vars

\* messages of a session that is later ended: an audio block with a fragment of the
\* assistant's transcript, and a fragment of the user's transcript
RestartMessages ==
    { [NoMessage EXCEPT !.outputText = "a", !.audio = MaxDuration],
      [NoMessage EXCEPT !.inputText = "a"] }

\* onmessage of the connection in use, at most as many messages as sessions in all
ReceiveRestart ==
    /\ TaskReady
    /\ Len(scheduled) + Len(userTranscription)
          + Cardinality({h \in HandlerIds : handlers[h].pc # "idle"}) < MaxSessions
    /\ \E k \in SessionIds, m \in RestartMessages :
          /\ sess[k].conn = "open"
          /\ Len(assistantTranscription) + (IF m.outputText # "" THEN 1 ELSE 0) <= MaxFragments
          /\ Receive(k, m)
    /\ UNCHANGED <<captureVars, voiceVars, serviceVars, pantryVars, listVars, sessionVars>>

\* sessions of one hook instance, each started after the one before it was ended with
\* the End Session button, and the audio they play
RestartNext ==
    \/ /\ TaskReady
       /\ \A j \in 1..started : sess[j].closedBy = "endSession"
       /\ StartSession
       /\ UNCHANGED <<captureVars, voiceVars, serviceVars, pantryVars, listVars, assistantVars>>
    \/ (\E k \in SessionIds : MicGranted(k)) /\ UNCHANGED <<captureVars, voiceVars, serviceVars, pantryVars, listVars, assistantVars>>
    \/ (\E k \in SessionIds : OnOpen(k, TRUE)) /\ UNCHANGED <<captureVars, voiceVars, serviceVars, pantryVars, listVars, assistantVars>>
    \/ TaskReady /\ EndSessionButton /\ UNCHANGED <<captureVars, voiceVars, serviceVars, pantryVars, listVars, assistantVars>>
    \/ ReceiveRestart
    \/ (\E h \in HandlerIds : AudioPart(h)) /\ UNCHANGED <<captureVars, voiceVars, serviceVars, pantryVars, listVars, sessionVars>>
    \/ (\E h \in HandlerIds : ScheduleBlock(h, TRUE))
          /\ UNCHANGED <<captureVars, voiceVars, serviceVars, pantryVars, listVars, mounted, isSessionActive, isMuted, sessionPromiseRef,
                         mediaStreamRef, inputAudioContextRef, outputAudioContextRef,
                         scriptProcessorRef, sourceNodeRef, started, sess, lastFrame, lastOp>>
    \/ TaskReady /\ (\E source \in audioSourcesRef : SourceEnded(source))
          /\ UNCHANGED <<captureVars, voiceVars, serviceVars, pantryVars, listVars, sessionVars>>
    \/ TaskReady /\ (\E k \in SessionIds : k = outputAudioContextRef /\ ClockTick(k))
          /\ UNCHANGED <<captureVars, voiceVars, serviceVars, pantryVars, listVars, assistantVars>>

\* the recipe has one step (the number of steps plays no part in the playback)
RestartInit == Init /\ stepCount = 1

SpecRestart == RestartInit /\ [][RestartNext]_vars

\* the microphone button of the pantry form, the recognitions it starts and the
\* renders of the form
VoiceNext ==
    \/ RunEffect /\ UNCHANGED <<listVars, sessionVars, assistantVars, serviceVars, pantryVars, captureVars>>
    \/ StartListening /\ UNCHANGED <<listVars, sessionVars, assistantVars, serviceVars, pantryVars, captureVars>>
    \/ StopListening /\ UNCHANGED <<listVars, sessionVars, assistantVars, serviceVars, pantryVars, captureVars>>
    \/ (\E r \in RecognitionIds, final \in BOOLEAN : RecognitionResult(r, final))
          /\ UNCHANGED <<listVars, sessionVars, assistantVars, serviceVars, captureVars>>
    \/ (\E r \in RecognitionIds : RecognitionEnd(r))
          /\ UNCHANGED <<listVars, sessionVars, assistantVars, serviceVars, pantryVars, captureVars>>
    \/ (\E r \in RecognitionIds : RecognitionError(r))
          /\ UNCHANGED <<listVars, sessionVars, assistantVars, serviceVars, pantryVars, captureVars>>

SpecVoice == Init /\ [][VoiceNext]_vars

\* the capture conversion applied to the samples of the captured blocks
CaptureNext ==
    (\E s \in Samples : CaptureBlock(s))
        /\ UNCHANGED <<listVars, sessionVars, assistantVars, serviceVars, pantryVars, voiceVars>>

SpecCapture == Init /\ [][CaptureNext]_vars

\* audio blocks, with or without a fragment of the assistant's transcript
SpokenMessages ==
    { [NoMessage EXCEPT !.audio = d, !.outputText = t] : d \in 1..MaxDuration, t \in {"", "w"} }

\* onmessage for a block that, queued behind the blocks scheduled, ends within the
\* clock's range
ReceiveSpoken ==
    /\ TaskReady
    /\ Len(scheduled) < MaxBlocks
    /\ \E k \in SessionIds, m \in SpokenMessages :
          /\ Max(sess[k].currentTime, nextStartTimeRef) + m.audio <= MaxClock
          /\ Receive(k, m)
    /\ UNCHANGED <<captureVars, voiceVars, serviceVars, pantryVars, listVars, sessionVars>>

\* the continuation of processMessage up to await decodeAudioData
RunAudioPart == (\E h \in HandlerIds : AudioPart(h)) /\ UNCHANGED <<captureVars, voiceVars, serviceVars, pantryVars, listVars, sessionVars>>

\* the continuation of processMessage after await decodeAudioData
RunScheduleBlock ==
    /\ \E h \in HandlerIds : ScheduleBlock(h, TRUE)
    /\ UNCHANGED <<captureVars, voiceVars, serviceVars, pantryVars, listVars, mounted, isSessionActive, isMuted, sessionPromiseRef,
                   mediaStreamRef, inputAudioContextRef, outputAudioContextRef,
                   scriptProcessorRef, sourceNodeRef, started, sess, lastFrame, lastOp>>

\* the ended event of a block that has played
FireSourceEnded ==
    /\ TaskReady
    /\ \E source \in audioSourcesRef : SourceEnded(source)
    /\ UNCHANGED <<captureVars, voiceVars, serviceVars, pantryVars, listVars, sessionVars>>

\* time passes on the output context
AdvanceClock ==
    /\ TaskReady
    /\ \E k \in SessionIds : ClockTick(k)
    /\ UNCHANGED <<captureVars, voiceVars, serviceVars, pantryVars, listVars, assistantVars>>

\* one session and the playback of the blocks it receives, every block ending
SpokenNext ==
    \/ started = 0 /\ StartSession /\ UNCHANGED <<captureVars, voiceVars, serviceVars, pantryVars, listVars, assistantVars>>
    \/ (\E k \in SessionIds : MicGranted(k)) /\ UNCHANGED <<captureVars, voiceVars, serviceVars, pantryVars, listVars, assistantVars>>
    \/ (\E k \in SessionIds : OnOpen(k, TRUE)) /\ UNCHANGED <<captureVars, voiceVars, serviceVars, pantryVars, listVars, assistantVars>>
    \/ ReceiveSpoken
    \/ RunAudioPart
    \/ RunScheduleBlock
    \/ FireSourceEnded
    \/ AdvanceClock

\* the event loop runs the continuations that are ready, the platform fires the ended
\* event of a block that has played, and the clock of a running context advances
SpecSpoken ==
    /\ Init
    /\ [][SpokenNext]_vars
    /\ WF_vars(RunAudioPart)
    /\ WF_vars(RunScheduleBlock)
    /\ WF_vars(FireSourceEnded)
    /\ WF_vars(AdvanceClock)

----------------------------------------------------------------------------
(* Properties of the audio playback *)

\* C1: within one voice session the scheduled start times never decrease, and every
\* block starts no earlier than the block scheduled before it ends: start(i+1) is at
\* least start(i) + duration(i), so no two scheduled blocks overlap
StartTimesDoNotOverlap ==
    \A i \in 1..(Len(scheduled) - 1) :
        scheduled[i].ctx = scheduled[i + 1].ctx =>
            /\ scheduled[i + 1].start >= scheduled[i].start
            /\ scheduled[i + 1].start >= scheduled[i].start + scheduled[i].duration

\* a block has been scheduled while the one before it was still to finish: it is queued
\* right behind it, later than the clock reading at its arrival
BlockQueuedBehindPrevious ==
    \E i \in 1..(Len(scheduled) - 1) :
        /\ scheduled[i + 1].clock < scheduled[i].start + scheduled[i].duration
        /\ scheduled[i + 1].start = scheduled[i].start + scheduled[i].duration
        /\ scheduled[i + 1].clock >= scheduled[i].clock

----------------------------------------------------------------------------
(* Properties of the function-call dispatch *)

\* the call that handler h is at
CallAt(h) == handlers[h].msg.calls[handlers[h].idx]

\* handler h answers a step-navigation call named name in this step
AnswersCall(h, name) ==
    /\ handlers[h].pc = "calls"
    /\ handlers'[h] # handlers[h]
    /\ CallAt(h).name = name

OneTaggedResponsePerCall ==
    \A h \in HandlerIds :
        LET calls == handlers[h].msg.calls
            responses == handlers[h].responses
        IN  /\ Len(responses) <= Len(calls)
            /\ \A i \in 1..Len(responses) :
                  /\ responses[i].id = calls[i].id
                  /\ responses[i].name = calls[i].name
            /\ handlers[h].pc \in {"calls", "awaitSubstitution"}
                  => Len(responses) = handlers[h].idx - 1
            /\ (handlers[h].pc = "audio" /\ handlers[h].session # 0)
                  => Len(responses) = Len(calls)

\* a batch of several calls is over, the handler of its first call raised an error, and
\* the call after it was answered all the same
BatchWithRaisingCallAnswered ==
    \E h \in HandlerIds :
        /\ handlers[h].pc = "audio"
        /\ Len(handlers[h].msg.calls) > 1
        /\ CallRaises(handlers[h].msg.calls[1])
        /\ Len(handlers[h].responses) = Len(handlers[h].msg.calls)
        /\ handlers[h].responses[1].result.kind = "error"
        /\ handlers[h].responses[2].id = 2

----------------------------------------------------------------------------
(* Properties of the shopping list *)

\* C3: in every list state and for every item name, adding the name twice gives the
\* list that adding it once gives, and adding a name that equals an entry up to letter
\* case and surrounding whitespace leaves the list unchanged
AddIsIdempotent ==
    \A name \in RawNames :
        LET arg == [isArray |-> FALSE, value |-> name]
            once == HandleAddToShoppingList(shoppingList, arg)
        IN  /\ HandleAddToShoppingList(once, arg) = once
            /\ (\E i \in 1..Len(shoppingList) :
                    ToLowerCase(Trim(shoppingList[i])) = ToLowerCase(Trim(name)))
                  => once = shoppingList

\* a name spelled differently from the entry it equals has been added, and the list
\* stayed as it was
RespelledNameAddedAgain ==
    /\ lastListOp.op = "add"
    /\ lastListOp.respelled
    /\ ~lastListOp.changed
    /\ shoppingList # <<>>

\* C5: after any sequence of add and clear operations the shopping list never holds two
\* entries that are equal ignoring letter case
NoTwoEntriesEqualIgnoringCase ==
    \A i, j \in 1..Len(shoppingList) :
        i # j => ToLowerCase(shoppingList[i]) # ToLowerCase(shoppingList[j])

\* C6: after any sequence of add and clear operations the shopping list is in ascending
\* order, entry by entry (the order of the strings' code units, which for the lower-case
\* letters is the alphabetical one)
ListInAscendingOrder ==
    \A i \in 1..(Len(shoppingList) - 1) : StrLeq(shoppingList[i], shoppingList[i + 1])

\* an add whose result is not the old list followed by the new entries: the sort has
\* moved an entry
AddMovedNewEntryForward ==
    /\ lastListOp.op = "add"
    /\ lastListOp.reordered
    /\ Len(shoppingList) > 1

----------------------------------------------------------------------------
(* Properties of the voice session *)

\* C7: a captured frame is handed to sendRealtimeInput only while isMuted is false, and
\* while isMuted is false no captured frame is dropped
FramesFollowMutedFlag ==
    /\ lastFrame.ev \in {"sent", "queued"} => ~lastFrame.muted
    /\ lastFrame.ev = "dropped" => lastFrame.muted

\* C8: once a close of the k-th session has been processed, by endSession, by the
\* unmount or by the remote side, its microphone tracks are stopped, its capture nodes
\* are disconnected, its audio contexts are closed and the session promise reference
\* does not hold it
EveryCloseTearsDown ==
    \A k \in SessionIds :
        (sess[k].closedBy # "none" /\ sess[k].conn \in {"closed", "closing"}) =>
            /\ sess[k].stream = "stopped"
            /\ sess[k].nodes # "connected"
            /\ sess[k].inputCtx = "closed"
            /\ sess[k].outputCtx = "closed"
            /\ sessionPromiseRef # k

\* C9: a captured frame is passed to sendRealtimeInput only while isSessionActive is true
FramesSentOnlyWhileActive ==
    lastFrame.ev = "sent" => lastFrame.active

\* C10: an endSession call that follows an endSession call, or that is made when no
\* session was ever started, changes nothing of the hook's state and leaves no error
\* unhandled
EndSessionIsIdempotent ==
    [][((lastOp \in {"endSession", "endSessionAgain"} \/ started = 0)
            /\ lastOp' \in {"endSession", "endSessionAgain"})
        => UNCHANGED <<isSessionActive, isMuted, sessionPromiseRef, mediaStreamRef,
                       inputAudioContextRef, outputAudioContextRef, scriptProcessorRef,
                       sourceNodeRef, started, sess, uncaught>>]_vars

\* endSession has been called right after an endSession that tore a session down
EndSessionCalledTwice ==
    /\ lastOp = "endSessionAgain"
    /\ ~uncaught
    /\ \E k \in SessionIds : sess[k].closedBy = "endSession" /\ sess[k].stream = "stopped"

----------------------------------------------------------------------------
(* Properties of the start of a session *)

\* C11: a startSession call that failed, on the microphone permission or on the
\* connection, leaves nothing behind: its microphone stream is not live, its audio
\* contexts are not open, the session promise reference does not hold its promise, and
\* isSessionActive is false as long as no other session was started
FailedStartLeavesNoSessionState ==
    \A k \in SessionIds :
        sess[k].phase \in {"denied", "failed"} =>
            /\ sess[k].stream # "live"
            /\ sess[k].inputCtx # "running"
            /\ sess[k].outputCtx # "running"
            /\ sessionPromiseRef # k
            /\ (started = 1 => ~isSessionActive)

\* the connection of the k-th connect is up, or coming up with no close waiting for it
ConnectionHeld(k) == sess[k].conn \in {"connecting", "open"} /\ ~sess[k].closeRequested

\* C12: at most one microphone stream, one input context, one output context and one
\* remote connection exist that have not been torn down, and each of them is the one the
\* hook's reference holds, so that endSession releases it
NoTwoSessionsCoexist ==
    /\ Cardinality({k \in SessionIds : sess[k].stream = "live"}) <= 1
    /\ Cardinality({k \in SessionIds : sess[k].inputCtx = "running"}) <= 1
    /\ Cardinality({k \in SessionIds : sess[k].outputCtx = "running"}) <= 1
    /\ Cardinality({k \in SessionIds : ConnectionHeld(k)}) <= 1
    /\ \A k \in SessionIds :
          /\ sess[k].stream = "live" => mediaStreamRef = k
          /\ sess[k].inputCtx = "running" => inputAudioContextRef = k
          /\ sess[k].outputCtx = "running" => outputAudioContextRef = k
          /\ ConnectionHeld(k) => sessionPromiseRef = k

----------------------------------------------------------------------------
(* Properties of the speaking flag *)

\* C13: isAssistantSpeaking is true whenever a scheduled block has not completed; each
\* completion removes exactly the block that completed from the set; a completion that
\* leaves the set empty sets the flag to false and empties the assistant transcript; and
\* with every block completing, a flag that is true is false later on
SpeakingFollowsActiveSources ==
    /\ [](audioSourcesRef # {} => isAssistantSpeaking)
    /\ [][(audioSourcesRef' # audioSourcesRef /\ audioSourcesRef' \subseteq audioSourcesRef)
            => /\ Cardinality(audioSourcesRef \ audioSourcesRef') = 1
               /\ \A source \in audioSourcesRef \ audioSourcesRef' :
                     sess[source.ctx].currentTime >= source.start + source.duration
               /\ audioSourcesRef' = {}
                     => (~isAssistantSpeaking' /\ assistantTranscription' = <<>>)
               /\ audioSourcesRef' # {}
                     => UNCHANGED <<isAssistantSpeaking, assistantTranscription>>]_vars
    /\ isAssistantSpeaking ~> ~isAssistantSpeaking

\* several blocks have played, the last completion has emptied the set, and the flag and
\* the transcript are cleared
LastBlockCompleted ==
    /\ Len(scheduled) > 1
    /\ \E i \in 1..Len(scheduled) : scheduled[i].start > scheduled[i].clock
    /\ audioSourcesRef = {}
    /\ ~isAssistantSpeaking
    /\ assistantTranscription = <<>>

----------------------------------------------------------------------------
(* Properties of geminiService *)

\* the image requests issued and those that have settled, by their place in the history
IssuedRequests == {p \in 1..Len(call.log) : call.log[p].ev = "issue"}

SettledRequests == {p \in 1..Len(call.log) : call.log[p].ev \in {"settled", "failed"}}

\* C14: within one addImagesToRecipes run at most one image request is in flight, the
\* requests are issued in list order, and the request for a recipe is issued only after
\* the request for the recipe before it has settled and the delay after it has elapsed
ImageRequestsSequential ==
    /\ Cardinality(IssuedRequests) - Cardinality(SettledRequests) \in {0, 1}
    /\ \A p \in 1..Len(call.log) :
          LET i == ((p - 1) \div 3) + 1
              k == (p - 1) % 3
          IN  /\ i <= Len(call.recipes)
              /\ call.log[p].i = i
              /\ call.log[p].name = call.recipes[i].recipeName
              /\ k = 0 => call.log[p].ev = "issue"
              /\ k = 1 => call.log[p].ev \in {"settled", "failed"}
              /\ k = 2 => call.log[p].ev = "delay"

\* a run over several recipes has returned; its first request failed and the second was
\* issued after the delay
SecondRequestAfterDelay ==
    /\ call.pc = "returned"
    /\ Len(call.recipes) > 1
    /\ Len(call.log) = 3 * Len(call.recipes)
    /\ call.log[2].ev = "failed"
    /\ call.log[3].ev = "delay"
    /\ call.log[4] = [ev |-> "issue", i |-> 2, name |-> call.recipes[2].recipeName]

\* C15: an addImagesToRecipes run that is over has returned a list of the length and
\* order of its input, every recipe with the image generated for it when its request
\* succeeded and with the placeholder when it failed, and its other fields unchanged
FailedImageBecomesPlaceholder ==
    (call.recipes # <<>> /\ call.pc \in {"returned", "threw"}) =>
        /\ call.pc = "returned"
        /\ Len(call.result) = Len(call.recipes)
        /\ \A i \in 1..Len(call.recipes) :
              /\ call.result[i].recipeName = call.recipes[i].recipeName
              /\ call.result[i].steps = call.recipes[i].steps
              /\ call.result[i].imageUrl.kind =
                    (IF call.log[3 * i - 1].ev = "settled" THEN "generated" ELSE "placeholder")

\* C16: an operation whose response text is not valid JSON returns an empty result and
\* raises no exception to its caller
MalformedJsonGivesEmptyResult ==
    (/\ call.pc \in {"returned", "threw"}
     /\ call.parsed # NoText
     /\ ~JsonParse(call.parsed).ok
     /\ call.raised # "request") =>
        /\ call.pc = "returned"
        /\ call.result = <<>>
        /\ ~call.prices

----------------------------------------------------------------------------
(* Properties of the pantry *)

\* C17: the pantry list holds no name twice, and every stored name is trimmed, lower-case
\* and non-empty
PantryNamesUnique ==
    /\ \A i, j \in 1..Len(pantryIngredients) :
          pantryIngredients[i] = pantryIngredients[j] => i = j
    /\ \A i \in 1..Len(pantryIngredients) :
          LET name == pantryIngredients[i]
          IN  /\ name # <<>>
              /\ name[1] # " " /\ name[Len(name)] # " "
              /\ \A k \in 1..Len(name) : \A u \in 1..Len(UpperChars) : name[k] # UpperChars[u]

\* the names of a list, as a set
NamesOf(list) == { list[i] : i \in 1..Len(list) }

\* C18: the list passed to recipe generation holds no name twice and holds exactly the
\* names of the fridge list (for a photo the ingredients just extracted, otherwise the
\* stored ones) and of the pantry as it is when generation is requested
GenerationGetsUnion ==
    lastGenerate.by # "none" =>
        /\ \A i, j \in 1..Len(lastGenerate.ingredients) :
              lastGenerate.ingredients[i] = lastGenerate.ingredients[j] => i = j
        /\ NamesOf(lastGenerate.ingredients) =
              NamesOf(lastGenerate.fridge) \cup NamesOf(lastGenerate.pantry)

----------------------------------------------------------------------------
(* Properties of the transcript buffers *)

\* a message has just been received: the slot of its processMessage call
ReceivedInto(h) == handlers[h].pc = "idle" /\ handlers'[h].pc # "idle"

\* C19: while the hook is mounted, a message without turnComplete appends its input
\* fragment (if it has one) to the user transcript, a message with turnComplete leaves
\* the user transcript empty whether or not it carries a fragment, and nothing else
\* changes the user transcript; so between two turn boundaries the buffer is the
\* fragments received, in arrival order
UserTranscriptFollowsTurns ==
    [][mounted =>
          IF \E h \in HandlerIds : ReceivedInto(h)
          THEN \A h \in HandlerIds : ReceivedInto(h) =>
                  userTranscription' =
                     (IF handlers'[h].msg.turnComplete THEN <<>>
                      ELSE IF handlers'[h].msg.inputText = "" THEN userTranscription
                      ELSE userTranscription \o <<handlers'[h].msg.inputText>>)
          ELSE userTranscription' = userTranscription]_vars

\* a message carrying both a fragment and turnComplete has been processed while the
\* hook is mounted, after the assistant's transcript has accumulated fragments
TurnCompleteWithFragmentProcessed ==
    /\ mounted
    /\ userTranscription = <<>>
    /\ Len(assistantTranscription) > 1
    /\ \E h \in HandlerIds :
          /\ handlers[h].pc = "audio"
          /\ handlers[h].msg.turnComplete
          /\ handlers[h].msg.inputText # ""

----------------------------------------------------------------------------
(* Properties of a batch with a failing call *)

\* handler h handles in this step a call whose local handler raises an error
HandlesRaisingCall(h) ==
    /\ handlers[h].pc = "calls"
    /\ handlers'[h] # handlers[h]
    /\ CallRaises(CallAt(h))

\* the batch of handler h has been processed to its end
BatchOver(h) == handlers[h].pc = "audio" /\ handlers[h].msg.calls # <<>> /\ handlers[h].session # 0

\* C20: a call whose local handler raises an error is answered with an error text and
\* has no local effect (step index, step shown, shopping list and assistant message stay
\* as they are), and the loop goes on with the call after it; when the batch is over
\* every call has its response, an error text exactly for the calls that raised, and
\* every shopping-list add that did not raise is answered as added with its name in the
\* list; a step call sets and reports the step computed from the step shown, whatever
\* calls of the batch failed before it
FailureIsolatedToItsCall ==
    /\ [](\A h \in HandlerIds : BatchOver(h) =>
            /\ Len(handlers[h].responses) = Len(handlers[h].msg.calls)
            /\ \A i \in 1..Len(handlers[h].msg.calls) :
                  LET fc == handlers[h].msg.calls[i]
                      result == handlers[h].responses[i].result
                  IN  /\ CallRaises(fc) <=> result.kind = "error"
                      /\ (fc.name = "addToShoppingList" /\ ~CallRaises(fc)) =>
                            /\ result.kind = "added"
                            /\ \E j \in 1..Len(shoppingList) :
                                  shoppingList[j] = ToLowerCase(Trim(fc.arg)))
    /\ [][\A h \in HandlerIds :
            /\ HandlesRaisingCall(h) =>
                  /\ UNCHANGED <<currentStep, currentStepRef, shoppingList, assistantMessage>>
                  /\ handlers'[h].idx = handlers[h].idx + 1
                  /\ handlers'[h].responses[handlers[h].idx].result.kind = "error"
                  /\ handlers[h].idx < Len(handlers[h].msg.calls) => handlers'[h].pc = "calls"
            /\ (mounted /\ (AnswersCall(h, "goToNextStep") \/ AnswersCall(h, "goToPreviousStep")))
                  => /\ currentStep' = (IF CallAt(h).name = "goToNextStep"
                                        THEN Min(stepCount - 1, currentStepRef + 1)
                                        ELSE Max(0, currentStepRef - 1))
                     /\ handlers'[h].responses[handlers[h].idx].result.step = currentStep' + 1
          ]_vars

\* a batch is over whose first call raised an error and whose second call, a
\* shopping-list add, was answered as added and has its name in the list
AddAfterRaisingCallTookEffect ==
    \E h \in HandlerIds :
        /\ BatchOver(h)
        /\ Len(handlers[h].msg.calls) > 1
        /\ CallRaises(handlers[h].msg.calls[1])
        /\ handlers[h].responses[1].result.kind = "error"
        /\ handlers[h].msg.calls[2].name = "addToShoppingList"
        /\ handlers[h].responses[2].result.kind = "added"
        /\ shoppingList = <<ToLowerCase(Trim(handlers[h].msg.calls[2].arg))>>

----------------------------------------------------------------------------
(* Properties of the order of playback *)

\* C21: a block that arrived earlier is scheduled with a start time no later than any
\* block of the same session that arrived after it
BlocksPlayInArrivalOrder ==
    \A i, j \in 1..Len(scheduled) :
        (scheduled[i].ctx = scheduled[j].ctx /\ scheduled[i].arrival < scheduled[j].arrival)
            => scheduled[i].start <= scheduled[j].start

\* the end of the block scheduled before the i-th one (0 before the first block)
PreviousEnd(i) ==
    IF i = 1 THEN 0 ELSE scheduled[i - 1].start + scheduled[i - 1].duration

\* C22: within one session every block starts at the larger of the clock reading at its
\* scheduling and the end of the block scheduled before it, and the next start time is
\* the end of the last block scheduled; a block scheduled before the clock has passed
\* the previous block's end starts exactly at that end
PlaybackIsGapless ==
    /\ \A i \in 1..Len(scheduled) :
          /\ scheduled[i].start =
                (IF scheduled[i].clock >= PreviousEnd(i) THEN scheduled[i].clock
                 ELSE PreviousEnd(i))
          /\ scheduled[i].clock <= PreviousEnd(i) => scheduled[i].start = PreviousEnd(i)
    /\ scheduled # <<>> =>
          nextStartTimeRef =
             scheduled[Len(scheduled)].start + scheduled[Len(scheduled)].duration

\* a block was scheduled after the clock had advanced but before the previous block's
\* end, and it starts at that end; the block before it had started at the clock reading
BlockStartsAtPreviousEnd ==
    \E i \in 2..Len(scheduled) :
        /\ scheduled[i].clock > scheduled[i - 1].clock
        /\ scheduled[i].clock < PreviousEnd(i)
        /\ scheduled[i].start = PreviousEnd(i)
        /\ scheduled[i - 1].start = scheduled[i - 1].clock
        /\ scheduled[i - 1].clock > 0

----------------------------------------------------------------------------
(* Properties of the end of a session *)

\* C23: while the hook is mounted, once endSession has been called on the session of
\* the k-th start and startSession has not been called after that start,
\* isSessionActive is false, whatever callbacks of the connections were still pending
InactiveAfterEndSession ==
    \A k \in SessionIds :
        (/\ mounted
         /\ sess[k].closedBy = "endSession"
         /\ \A j \in SessionIds : j > k => sess[j].phase = "unused")
            => ~isSessionActive

----------------------------------------------------------------------------
(* Properties of the capture conversion *)

\* C24: the value stored for a captured sample s in [-1, 1] lies in [-32768, 32767], is
\* the integer part of s * 32768, and has the sign of s (including for s = 1)
SampleStoredWithoutWraparound ==
    lastBlock.taken =>
        /\ lastBlock.int16 \in (0 - 32768)..32767
        /\ lastBlock.sample > 0 => lastBlock.int16 >= 0
        /\ lastBlock.sample < 0 => lastBlock.int16 <= 0
        /\ lastBlock.int16 * SampleSteps <= lastBlock.sample * 32768 + (SampleSteps - 1)
        /\ lastBlock.int16 * SampleSteps >= lastBlock.sample * 32768 - (SampleSteps - 1)

----------------------------------------------------------------------------
(* Properties of the loading flag *)

\* C25: once a generation flow has finished (no file is being read, no photo is being
\* analysed and no recipes are being generated) the loading indicator is off, including
\* after a photo analysis that found nothing while the pantry was empty
LoadingEndsWithTheFlow ==
    upload.pc = "idle" => ~isLoading

----------------------------------------------------------------------------
(* Properties of the step navigation within one batch *)

\* the handler h has answered every call of its batch and has not yet left processMessage
BatchAnswered(h) ==
    /\ handlers[h].pc = "audio"
    /\ handlers[h].msg.calls # <<>>
    /\ Len(handlers[h].responses) = Len(handlers[h].msg.calls)

\* C26: a batch of k goToNextStep calls processed while the view shows step s (the step
\* of its last render, which getCurrentStep returns) ends at step min(s + k, stepCount - 1),
\* and every response of the batch reports the step shown after the batch
NextStepCallsCompose ==
    \A h \in HandlerIds :
        (/\ mounted
         /\ BatchAnswered(h)
         /\ \A i \in 1..Len(handlers[h].msg.calls) :
               handlers[h].msg.calls[i].name = "goToNextStep")
            => /\ currentStep = Min(currentStepRef + Len(handlers[h].msg.calls), stepCount - 1)
               /\ \A i \in 1..Len(handlers[h].responses) :
                     handlers[h].responses[i].result.step = currentStep + 1

----------------------------------------------------------------------------
(* Properties of the command indicator *)

\* the handler h is processing a function-call batch: received, last response not yet sent
BatchInProgress(h) == handlers[h].pc \in {"awaitSession", "calls", "awaitSubstitution"}

\* C27: isProcessingCommand is true exactly while some function-call batch is being
\* processed, also when two batches overlap, and false when none is
CommandFlagTracksBatches ==
    mounted => (isProcessingCommand <=> \E h \in HandlerIds : BatchInProgress(h))

----------------------------------------------------------------------------
(* Properties of the playback state across sessions *)

\* the block at position i of the schedule is the first one scheduled on its context
FirstBlockOfSession(i) ==
    \A j \in 1..(i - 1) : scheduled[j].ctx # scheduled[i].ctx

\* a session has just been started after the session before it was ended
NewSessionStarts ==
    /\ started > 1
    /\ sess[started].phase = "awaitMic"
    /\ sess[started - 1].closedBy = "endSession"

\* C28: playback state does not leak into the next session: the first block of a session
\* started after an ended one is scheduled at the current time of the new output clock,
\* and when that session starts the active-sources set is empty, the speaking flag is
\* false and both transcripts are empty
PlaybackStateDoesNotLeak ==
    /\ \A i \in 1..Len(scheduled) :
          (scheduled[i].ctx > 1 /\ FirstBlockOfSession(i))
              => scheduled[i].start = scheduled[i].clock
    /\ (mounted /\ NewSessionStarts)
          => /\ audioSourcesRef = {}
             /\ ~isAssistantSpeaking
             /\ userTranscription = <<>>
             /\ assistantTranscription = <<>>

----------------------------------------------------------------------------
(* Properties of the voice recognition *)

\* C29: isListening is true only while a recognition is running with its result, end
\* and error handlers attached, so that a final result reaches onResult and the end
\* of the recognition turns isListening off
ListeningOnlyWhileRecognising ==
    isListening
        => \E r \in RecognitionIds : recognitions[r].running /\ recognitions[r].attached

----------------------------------------------------------------------------
(* Properties of the recipe card *)

\* C30: after "Add All to List" has been applied, the card reports every missing
\* ingredient of the recipe as in the list (and shows "Added"), whatever the letter case
\* and the surrounding whitespace of the names; after the "+" of one ingredient has been
\* applied, that ingredient is reported as in the list
CardReportsWhatItAdded ==
    [][/\ \A missing \in MissingIngredientLists :
             RecipeCardAddAll(missing) => AreAllItemsInList(shoppingList', missing)
       /\ \A item \in RawNames :
             RecipeCardAddOne(item) => IsItemInList(shoppingList', item)]_vars

====
